---- MODULE Spec2Model ----
(***************************************************************************)
(* Model of the verify -> ship release-gating pipeline:                    *)
(*   scripts/verify.js  (src/unnamed/part_002)  the verification script    *)
(*   scripts/ai-review.js                       the review subprocess      *)
(*   scripts/ship.js    (src/unnamed/part_001)  the ship script            *)
(* JavaScript values are modelled as strings: "true", "false",             *)
(* "undefined", "null" and ordinary strings; an object is a function from  *)
(* its keys to such values.  Captured command output and issue lists are   *)
(* abstracted to what the scripts read from them.                          *)
(***************************************************************************)
EXTENDS Integers, Sequences, FiniteSets, TLC

VARIABLES
  tree,          \* the working tree: path -> content, "ENOENT" or "EACCES"
  stateFile,     \* .workflow/state/verify-state.json
  aiResultFile,  \* .workflow/state/ai-review.json
  verify,        \* the verify process: position, options and locals of main
  review,        \* the ai-review subprocess: position and its results object
  ship,          \* the ship process: position, options and locals of main,
                 \* and the phases (Loaded, Integrity-Checked, Decided) it
                 \* has gone through
  shipOut        \* what the current ship run has printed and executed

vars == <<tree, stateFile, aiResultFile, verify, review, ship, shipOut>>

(***************************************************************************)
(* JavaScript truthiness and the short-circuit operators                   *)
(***************************************************************************)
Truthy(v) == v \notin {"false", "undefined", "null", ""}

\* a || b
JsOr(a, b) == IF Truthy(a) THEN a ELSE b

\* a && b
JsAnd(a, b) == IF Truthy(a) THEN b ELSE a

\* obj.key, "undefined" when the key is absent
Get(obj, key) == IF key \in DOMAIN obj THEN obj[key] ELSE "undefined"

\* JSON.stringify followed by JSON.parse of a flat object: keys whose value
\* is undefined are not written, so they are absent when read back
JSONstringify(obj) ==
  [k \in {j \in DOMAIN obj : obj[j] # "undefined"} |-> obj[k]]

Bool(b) == IF b THEN "true" ELSE "false"

EmptyObj == [k \in {} |-> "undefined"]

(***************************************************************************)
(* The working tree and the hasher                                         *)
(***************************************************************************)
Paths == {"src/a.js", "src/b.js"}

Contents == {"v1", "v2"}

FileStates == Contents \cup {"ENOENT", "EACCES"}

\* the value null where a digest is expected
Null == <<>>

\* crypto.createHash('sha256').update(content).digest('hex'): a fixed hex
\* string per byte content, different for different contents
sha256(content) ==
  CASE content = "v1" -> <<"3", "b", "c", "5", "1", "0", "6", "2", "a", "f", "9", "e">>
    [] content = "v2" -> <<"d", "4", "7", "3", "5", "e", "8", "8", "1", "c", "0", "b">>

\* hashFile with a digest that does not depend on the content
hashFileOfNothing(fs, p) ==
  IF fs[p] \in Contents THEN sha256("v1") ELSE Null

\* hashFile(filePath): the digest, or null when the file cannot be read
hashFile(fs, p) ==
  IF fs[p] \in Contents THEN sha256(fs[p]) ELSE Null

\* fs.existsSync(filePath)
existsSync(fs, p) == fs[p] # "ENOENT"

\* findFiles('.'): the tracked files that exist, whether readable or not
findFiles(fs) == {p \in Paths : existsSync(fs, p)}

(***************************************************************************)
(* verify.js: the gates                                                    *)
(***************************************************************************)
\* what an external command can do: its exit status and the severity words
\* that occur in its captured output
CommandRuns == [status : {0, 1}, words : SUBSET {"high", "critical"}]

\* runCommand(command, description)
runCommand(run) ==
  [success |-> Bool(run.status = 0), output |-> run.words]

\* package.json as runTests and runLint read it: unreadable or unparsable,
\* without the script, or with it
PackageJson == {"missing", "no script", "has script"}

GateResult(success, skipped, reason) ==
  [success |-> success, skipped |-> skipped, reason |-> reason]

\* runTests()
runTests(skipTests, pkg, run) ==
  IF skipTests THEN GateResult("undefined", "true", "undefined")
  ELSE IF pkg = "missing" THEN GateResult("undefined", "true", "no package.json")
  ELSE IF pkg = "no script" THEN GateResult("undefined", "true", "no test script")
  ELSE GateResult(runCommand(run).success, "undefined", "undefined")

\* runLint with a missing lint script counted as a failure
runLintFailsWithoutScript(skipLint, pkg, run) ==
  IF skipLint THEN GateResult("undefined", "true", "undefined")
  ELSE IF pkg = "missing" THEN GateResult("undefined", "true", "no package.json")
  ELSE IF pkg = "no script" THEN GateResult("false", "undefined", "no lint script")
  ELSE GateResult(runCommand(run).success, "undefined", "undefined")

\* runLint()
runLint(skipLint, pkg, run) ==
  IF skipLint THEN GateResult("undefined", "true", "undefined")
  ELSE IF pkg = "missing" THEN GateResult("undefined", "true", "no package.json")
  ELSE IF pkg = "no script" THEN GateResult("undefined", "true", "no lint script")
  ELSE GateResult(runCommand(run).success, "undefined", "undefined")

\* runAudit with the gate following the exit status alone
runAuditFailsOnNonZero(run) ==
  GateResult(runCommand(run).success, "undefined", "undefined")

\* runAudit(): passed unless the output mentions high or critical and the
\* command failed
runAudit(run) ==
  LET result == runCommand(run)
      hasHighCritical == "high" \in result.output \/ "critical" \in result.output
  IN  GateResult(Bool(~hasHighCritical \/ result.success = "true"),
                 "undefined", "undefined")

\* what runAiReview returns
AiResult(success, skipped, reason, securityRisk, codeQuality, needsAttention, error) ==
  [success |-> success, skipped |-> skipped, reason |-> reason,
   securityRisk |-> securityRisk, codeQuality |-> codeQuality,
   needsAttention |-> needsAttention, error |-> error]

AiSkipped(reason) ==
  AiResult("undefined", "true", reason, "undefined", "undefined", "undefined", "undefined")

\* runAiReview(), after the subprocess has ended: exitOk is false when
\* execSync threw (non-zero exit, timeout or spawn error); file is
\* ai-review.json as it is on disk at that moment.  A file that does not
\* parse throws inside the try (line 204) and is ignored in the catch
\* (lines 222-233).
collectAiReview(exitOk, file) ==
  IF file.kind = "json"
    THEN AiResult(file.summary.passesReview, "undefined", "undefined",
                  file.summary.securityRisk, file.summary.codeQuality,
                  IF exitOk THEN "undefined"
                  ELSE Bool(~Truthy(file.summary.passesReview)),
                  "undefined")
  ELSE IF exitOk /\ file.kind = "absent"
    THEN AiResult("true", "undefined", "undefined", "undefined", "undefined",
                  "undefined", "undefined")
    ELSE AiResult("false", "undefined", "undefined", "undefined", "undefined",
                  "undefined",
                  IF exitOk THEN "Unexpected token" ELSE "Command failed")

\* the summary object of the verification state (lines 281-291)
Summary(testResults, lintResults, auditResults, aiReviewResults) ==
  [testsPass |-> JsOr(testResults.success, testResults.skipped),
   lintPass |-> JsOr(lintResults.success, lintResults.skipped),
   auditPass |-> auditResults.success,
   aiReviewPass |-> JsOr(aiReviewResults.success, aiReviewResults.skipped),
   overallPass |->
     JsAnd(JsOr(testResults.success, testResults.skipped),
       JsAnd(JsOr(lintResults.success, lintResults.skipped),
         JsAnd(auditResults.success,
               JsOr(aiReviewResults.success, aiReviewResults.skipped))))]

\* the verifyState object main builds (lines 270-292); files.hashes is
\* kept as hashes, and version, timestamp and the two counts are left out
VerifyState(fileHashes, testResults, lintResults, auditResults, aiReviewResults) ==
  [hashes |-> fileHashes,
   tests |-> testResults,
   lint |-> lintResults,
   audit |-> auditResults,
   aiReview |-> aiReviewResults,
   summary |-> Summary(testResults, lintResults, auditResults, aiReviewResults)]

\* JSON.stringify(verifyState, null, 2) as fs.writeFileSync stores it and
\* JSON.parse reads it back: undefined members are left out
RecordOf(verifyState) ==
  [kind |-> "json",
   hashes |-> verifyState.hashes,
   tests |-> JSONstringify(verifyState.tests),
   lint |-> JSONstringify(verifyState.lint),
   audit |-> JSONstringify(verifyState.audit),
   aiReview |-> JSONstringify(verifyState.aiReview),
   summary |-> JSONstringify(verifyState.summary)]

\* a file that does not exist, and one that holds no parsable JSON
NoFile == [kind |-> "absent"]
CorruptFile == [kind |-> "corrupt"]

(***************************************************************************)
(* ai-review.js: the review subprocess                                     *)
(***************************************************************************)
RiskTiers == {"LOW", "MEDIUM", "HIGH", "CRITICAL"}

QualityTiers == {"EXCELLENT", "GOOD", "ACCEPTABLE", "NEEDS_WORK"}

\* the ways callGemini rejects
CallFailures == {"Timeout", "TransportError", "ApiError"}

\* a review object: {error} after a failed call, else what
\* parseGeminiResponse returned, reduced to its raw marker and its
\* overallRisk / overallQuality member
ReviewObj(error, raw, tier) == [error |-> error, raw |-> raw, tier |-> tier]

\* the initial value null of securityReview and qualityReview
NullObj == [null |-> "true"]

\* what one callGemini call followed by parseGeminiResponse can give: a
\* rejection, the raw fallback, or a parsed document with or without a tier
Replies(tiers) ==
  {[call |-> f, raw |-> "undefined", tier |-> "undefined"] : f \in CallFailures}
  \cup {[call |-> "text", raw |-> "true", tier |-> "undefined"]}
  \cup {[call |-> "text", raw |-> "undefined", tier |-> t] : t \in tiers \cup {"undefined"}}

\* the try/catch around one review (lines 406-426 and 434-454)
reviewOf(reply) ==
  IF reply.call = "text"
    THEN ReviewObj("undefined", reply.raw, reply.tier)
    ELSE ReviewObj(reply.call, "undefined", "undefined")

\* the summary tier: overwritten only when the review carries one
tierOf(reviewObj, initial) ==
  IF Truthy(reviewObj.tier) THEN reviewObj.tier ELSE initial

\* securityPass with HIGH taken into the accepted list
securityPassAcceptsHigh(securityReview) ==
  ~Truthy(securityReview.tier) \/ securityReview.tier \in {"LOW", "MEDIUM", "HIGH"}

\* lines 458-459
securityPass(securityReview) ==
  ~Truthy(securityReview.tier) \/ securityReview.tier \in {"LOW", "MEDIUM"}

\* lines 460-462
qualityPass(qualityReview) ==
  \/ qualityReview = NullObj
  \/ ~Truthy(qualityReview.tier)
  \/ qualityReview.tier \in {"EXCELLENT", "GOOD", "ACCEPTABLE"}

\* results.summary.passesReview (line 464)
passesReview(securityReview, qualityReview) ==
  securityPass(securityReview) /\ qualityPass(qualityReview)

\* the results object as written to ai-review.json (lines 387-399, 464, 473)
ReviewResults(securityReview, qualityReview) ==
  [kind |-> "json",
   securityReview |-> securityReview,
   qualityReview |-> qualityReview,
   summary |->
     [securityRisk |-> tierOf(securityReview, "UNKNOWN"),
      codeQuality |-> IF qualityReview = NullObj THEN "UNKNOWN"
                      ELSE tierOf(qualityReview, "UNKNOWN"),
      passesReview |-> Bool(passesReview(securityReview, qualityReview))]]

ReviewIdle ==
  [pc |-> "idle", securityFocus |-> FALSE, securityReview |-> NullObj,
   qualityReview |-> NullObj, requests |-> <<>>, exit |-> "-"]

\* lines 352-382: gather the code; with nothing to review the script exits
\* 0 and writes nothing
ReviewGather ==
  /\ review.pc = "start"
  /\ \E hasCode \in BOOLEAN :
       review' = IF hasCode
                   THEN [review EXCEPT !.pc = "security"]
                   ELSE [review EXCEPT !.pc = "exited", !.exit = "0"]
  /\ UNCHANGED <<tree, stateFile, aiResultFile, verify, ship, shipOut>>

\* ReviewSecurity with the quality review following whatever the scope
ReviewSecurityThenQuality ==
  /\ review.pc = "security"
  /\ \E reply \in Replies(RiskTiers) :
       review' = [review EXCEPT
                    !.securityReview = reviewOf(reply),
                    !.requests = Append(@, "security"),
                    !.pc = "quality"]
  /\ UNCHANGED <<tree, stateFile, aiResultFile, verify, ship, shipOut>>

\* lines 401-426: the security review
ReviewSecurity ==
  /\ review.pc = "security"
  /\ \E reply \in Replies(RiskTiers) :
       review' = [review EXCEPT
                    !.securityReview = reviewOf(reply),
                    !.requests = Append(@, "security"),
                    !.pc = IF review.securityFocus THEN "finish" ELSE "quality"]
  /\ UNCHANGED <<tree, stateFile, aiResultFile, verify, ship, shipOut>>

\* ReviewQuality with a failed request sent again
ReviewQualityRetries ==
  /\ review.pc = "quality"
  /\ \E reply \in Replies(QualityTiers) :
       review' = [review EXCEPT
                    !.qualityReview = reviewOf(reply),
                    !.requests = Append(@, "quality"),
                    !.pc = IF reply.call # "text" /\ Len(review.requests) < 3
                             THEN "quality" ELSE "finish"]
  /\ UNCHANGED <<tree, stateFile, aiResultFile, verify, ship, shipOut>>

\* lines 428-455: the quality review, unless --security-focus
ReviewQuality ==
  /\ review.pc = "quality"
  /\ \E reply \in Replies(QualityTiers) :
       review' = [review EXCEPT
                    !.qualityReview = reviewOf(reply),
                    !.requests = Append(@, "quality"),
                    !.pc = "finish"]
  /\ UNCHANGED <<tree, stateFile, aiResultFile, verify, ship, shipOut>>

\* lines 457-487: decide, write ai-review.json, exit
ReviewFinish ==
  /\ review.pc = "finish"
  /\ aiResultFile' = ReviewResults(review.securityReview, review.qualityReview)
  /\ review' = [review EXCEPT
                  !.pc = "exited",
                  !.exit = IF passesReview(review.securityReview, review.qualityReview)
                           THEN "0" ELSE "1"]
  /\ UNCHANGED <<tree, stateFile, verify, ship, shipOut>>

(***************************************************************************)
(* verify.js: main                                                         *)
(***************************************************************************)
VerifyOptions ==
  [skipTests : BOOLEAN, skipLint : BOOLEAN, skipAiReview : BOOLEAN,
   securityFocus : BOOLEAN]

NotRun == GateResult("undefined", "undefined", "undefined")

AiNotRun ==
  AiResult("undefined", "undefined", "undefined", "undefined", "undefined",
           "undefined", "undefined")

NoHashes == [p \in {} |-> Null]

\* how the command of each gate ended: not invoked, exit status 0, a
\* non-zero exit status or, for the review subprocess, killed or not
\* spawned
NotInvoked == [tests |-> "-", lint |-> "-", audit |-> "-", aiReview |-> "-"]

Ended(run) == IF run.status = 0 THEN "0" ELSE "nonzero"

\* what each gate found when it looked for its capability: package.json
\* and its script for tests and lint, the API key and the review script for
\* the review; "-" when the gate did not look (skip flag, or not yet run)
NotLooked == [tests |-> "-", lint |-> "-", aiReview |-> "-"]

VerifyIdle ==
  [pc |-> "idle",
   options |-> [skipTests |-> FALSE, skipLint |-> FALSE, skipAiReview |-> FALSE,
                securityFocus |-> FALSE],
   fileHashes |-> NoHashes, testResults |-> NotRun, lintResults |-> NotRun,
   auditResults |-> NotRun, aiReviewResults |-> AiNotRun,
   capability |-> NotLooked, ended |-> NotInvoked, auditOutput |-> {},
   exit |-> "-"]

\* node scripts/verify.js [options]
VerifyStart ==
  /\ verify.pc = "idle"
  /\ ship.pc = "idle"
  /\ \E options \in VerifyOptions :
       verify' = [VerifyIdle EXCEPT !.pc = "snapshot", !.options = options]
  /\ UNCHANGED <<tree, stateFile, aiResultFile, review, ship, shipOut>>

\* lines 252-261: hash every tracked file; a file that cannot be read is
\* left out of the snapshot
fileHashes(fs) ==
  [p \in {f \in findFiles(fs) : hashFile(fs, f) # Null} |-> hashFile(fs, p)]

\* lines 250-261
VerifySnapshot ==
  /\ verify.pc = "snapshot"
  /\ verify' = [verify EXCEPT !.fileHashes = fileHashes(tree), !.pc = "tests"]
  /\ UNCHANGED <<tree, stateFile, aiResultFile, review, ship, shipOut>>

\* line 264
VerifyRunTests ==
  /\ verify.pc = "tests"
  /\ \E pkg \in PackageJson, run \in CommandRuns :
       verify' = [verify EXCEPT
         !.testResults = runTests(verify.options.skipTests, pkg, run),
         !.capability.tests = IF verify.options.skipTests THEN "-" ELSE pkg,
         !.ended.tests = IF ~verify.options.skipTests /\ pkg = "has script"
                           THEN Ended(run) ELSE "-",
         !.pc = "lint"]
  /\ UNCHANGED <<tree, stateFile, aiResultFile, review, ship, shipOut>>

\* line 265
VerifyRunLint ==
  /\ verify.pc = "lint"
  /\ \E pkg \in PackageJson, run \in CommandRuns :
       verify' = [verify EXCEPT
         !.lintResults = runLint(verify.options.skipLint, pkg, run),
         !.capability.lint = IF verify.options.skipLint THEN "-" ELSE pkg,
         !.ended.lint = IF ~verify.options.skipLint /\ pkg = "has script"
                          THEN Ended(run) ELSE "-",
         !.pc = "audit"]
  /\ UNCHANGED <<tree, stateFile, aiResultFile, review, ship, shipOut>>

\* line 266
VerifyRunAudit ==
  /\ verify.pc = "audit"
  /\ \E run \in CommandRuns :
       verify' = [verify EXCEPT !.auditResults = runAudit(run),
                                !.ended.audit = Ended(run),
                                !.auditOutput = runCommand(run).output,
                                !.pc = "aiReview"]
  /\ UNCHANGED <<tree, stateFile, aiResultFile, review, ship, shipOut>>

\* runAiReview, lines 171-188: the review is skipped by flag, for want of
\* the API key, or for want of the review script
VerifySkipAiReview ==
  /\ verify.pc = "aiReview"
  /\ \E hasKey \in BOOLEAN, hasScript \in BOOLEAN :
       /\ verify.options.skipAiReview \/ ~hasKey \/ ~hasScript
       /\ verify' = [verify EXCEPT
            !.aiReviewResults =
              IF verify.options.skipAiReview THEN AiSkipped("undefined")
              ELSE IF ~hasKey THEN AiSkipped("no API key")
              ELSE AiSkipped("script not found"),
            !.capability.aiReview =
              IF verify.options.skipAiReview THEN "-"
              ELSE IF ~hasKey THEN "no key"
              ELSE "no script",
            !.pc = "write"]
  /\ UNCHANGED <<tree, stateFile, aiResultFile, review, ship, shipOut>>

\* runAiReview, lines 190-199: execSync starts the review subprocess and
\* waits for it
VerifySpawnReview ==
  /\ verify.pc = "aiReview"
  /\ ~verify.options.skipAiReview
  /\ verify' = [verify EXCEPT !.pc = "waitReview",
                              !.capability.aiReview = "key and script"]
  /\ review' = [ReviewIdle EXCEPT !.pc = "start",
                                  !.securityFocus = verify.options.securityFocus]
  /\ UNCHANGED <<tree, stateFile, aiResultFile, ship, shipOut>>

\* runAiReview, lines 201-240: the subprocess has exited
VerifyReviewReturned ==
  /\ verify.pc = "waitReview"
  /\ review.pc = "exited"
  /\ verify' = [verify EXCEPT
       !.aiReviewResults = collectAiReview(review.exit = "0", aiResultFile),
       !.ended.aiReview = IF review.exit = "0" THEN "0" ELSE "nonzero",
       !.pc = "write"]
  /\ review' = ReviewIdle
  /\ UNCHANGED <<tree, stateFile, aiResultFile, ship, shipOut>>

\* runAiReview, lines 198 and 215-240: the subprocess is killed at the
\* 2 minute timeout, or dies, before it has finished
VerifyReviewKilled ==
  /\ verify.pc = "waitReview"
  /\ review.pc \in {"start", "security", "quality", "finish"}
  /\ verify' = [verify EXCEPT
       !.aiReviewResults = collectAiReview(FALSE, aiResultFile),
       !.ended.aiReview = "killed",
       !.pc = "write"]
  /\ review' = ReviewIdle
  /\ UNCHANGED <<tree, stateFile, aiResultFile, ship, shipOut>>

\* VerifyWrite with the write made only for a passing verification
VerifyWriteOnlyOnPass ==
  /\ verify.pc = "write"
  /\ stateFile' =
       IF Truthy(Summary(verify.testResults, verify.lintResults,
                         verify.auditResults, verify.aiReviewResults).overallPass)
         THEN RecordOf(VerifyState(verify.fileHashes, verify.testResults,
                                   verify.lintResults, verify.auditResults,
                                   verify.aiReviewResults))
         ELSE stateFile
  /\ verify' = [verify EXCEPT !.pc = "exit"]
  /\ UNCHANGED <<tree, aiResultFile, review, ship, shipOut>>

\* lines 269-304: build the verification state and write it
VerifyWrite ==
  /\ verify.pc = "write"
  /\ stateFile' = RecordOf(VerifyState(verify.fileHashes, verify.testResults,
                                       verify.lintResults, verify.auditResults,
                                       verify.aiReviewResults))
  /\ verify' = [verify EXCEPT !.pc = "exit"]
  /\ UNCHANGED <<tree, aiResultFile, review, ship, shipOut>>

\* line 334: process.exit(overallPass ? 0 : 1); the locals of the process
\* are gone with it
VerifyExit ==
  /\ verify.pc = "exit"
  /\ verify' = [VerifyIdle EXCEPT
       !.exit = IF Truthy(Summary(verify.testResults, verify.lintResults,
                                  verify.auditResults,
                                  verify.aiReviewResults).overallPass)
                THEN "0" ELSE "1",
       !.pc = "done"]
  /\ UNCHANGED <<tree, stateFile, aiResultFile, review, ship, shipOut>>

(***************************************************************************)
(* ship.js                                                                 *)
(***************************************************************************)
ShipOptions == [createPR : BOOLEAN, dryRun : BOOLEAN]

\* the order in which Object.entries yields the snapshot: verify inserted
\* the paths in sorted order
PathOrder == <<"src/a.js", "src/b.js">>

\* DigestPrefix without the substring
DigestPrefixWhole(hash) ==
  IF hash = Null THEN <<"undefined", "...">> ELSE hash \o <<"...">>

\* hash.substring(0, 8) + '...'; for a null hash the optional chaining
\* gives undefined, and undefined + '...' is the text 'undefined...'
DigestPrefix(hash) ==
  IF hash = Null THEN <<"undefined", "...">>
  ELSE SubSeq(hash, 1, IF Len(hash) < 8 THEN Len(hash) ELSE 8) \o <<"...">>

NoResults == [verified |-> 0, modified |-> <<>>, missing |-> <<>>, total |-> 0]

\* integrityLoop with break in the place of continue at a missing file
RECURSIVE integrityLoopBreaks(_, _, _, _)
integrityLoopBreaks(fs, hashes, entries, results) ==
  IF entries = <<>> THEN results
  ELSE LET filePath == Head(entries)
           expectedHash == hashes[filePath]
           currentHash == hashFile(fs, filePath)
       IN  IF ~existsSync(fs, filePath)
             THEN [results EXCEPT !.missing = Append(@, filePath)]
           ELSE IF currentHash = expectedHash
             THEN integrityLoopBreaks(fs, hashes, Tail(entries),
                                      [results EXCEPT !.verified = @ + 1])
           ELSE integrityLoopBreaks(fs, hashes, Tail(entries),
                  [results EXCEPT !.modified =
                     Append(@, [file |-> filePath,
                                expected |-> DigestPrefix(expectedHash),
                                actual |-> DigestPrefix(currentHash)])])

\* integrityLoop taking a file that cannot be read for an unchanged one
RECURSIVE integrityLoopTrustsUnreadable(_, _, _, _)
integrityLoopTrustsUnreadable(fs, hashes, entries, results) ==
  IF entries = <<>> THEN results
  ELSE LET filePath == Head(entries)
           expectedHash == hashes[filePath]
           currentHash == hashFile(fs, filePath)
           next ==
             IF ~existsSync(fs, filePath)
               THEN [results EXCEPT !.missing = Append(@, filePath)]
             ELSE IF currentHash = expectedHash \/ currentHash = Null
               THEN [results EXCEPT !.verified = @ + 1]
             ELSE [results EXCEPT !.modified =
                     Append(@, [file |-> filePath,
                                expected |-> DigestPrefix(expectedHash),
                                actual |-> DigestPrefix(currentHash)])]
       IN  integrityLoopTrustsUnreadable(fs, hashes, Tail(entries), next)

\* the loop of verifyFileIntegrity (lines 91-107) over the entries left
RECURSIVE integrityLoop(_, _, _, _)
integrityLoop(fs, hashes, entries, results) ==
  IF entries = <<>> THEN results
  ELSE LET filePath == Head(entries)
           expectedHash == hashes[filePath]
           currentHash == hashFile(fs, filePath)
           next ==
             IF ~existsSync(fs, filePath)
               THEN [results EXCEPT !.missing = Append(@, filePath)]
             ELSE IF currentHash = expectedHash
               THEN [results EXCEPT !.verified = @ + 1]
             ELSE [results EXCEPT !.modified =
                     Append(@, [file |-> filePath,
                                expected |-> DigestPrefix(expectedHash),
                                actual |-> DigestPrefix(currentHash)])]
       IN  integrityLoop(fs, hashes, Tail(entries), next)

\* verifyFileIntegrity going over every tracked file of the tree as well
verifyFileIntegrityOfTree(fs, state) ==
  LET entries == SelectSeq(PathOrder,
                   LAMBDA p : p \in DOMAIN state.hashes \/ existsSync(fs, p))
      hashes == [p \in Paths |-> IF p \in DOMAIN state.hashes
                                   THEN state.hashes[p] ELSE Null]
  IN  integrityLoop(fs, hashes, entries,
                    [NoResults EXCEPT !.total = Len(entries)])

\* verifyFileIntegrity(state)
verifyFileIntegrity(fs, state) ==
  LET entries == SelectSeq(PathOrder, LAMBDA p : p \in DOMAIN state.hashes)
  IN  integrityLoop(fs, state.hashes, entries,
                    [NoResults EXCEPT !.total = Cardinality(DOMAIN state.hashes)])

\* checkGates with a flag that is not in the record taken as passed
checkGatesDefaultsToPass(state) ==
  [verificationPassed |-> JsOr(Get(state.summary, "overallPass"), "true"),
   testsPass |-> JsOr(Get(state.summary, "testsPass"), "true"),
   lintPass |-> JsOr(Get(state.summary, "lintPass"), "true"),
   auditPass |-> JsOr(Get(state.summary, "auditPass"), "true")]

\* checkGates(state); state.summary?.flag is undefined for a summary
\* without the flag and for a record without summary alike
checkGates(state) ==
  [verificationPassed |-> JsOr(Get(state.summary, "overallPass"), "false"),
   testsPass |-> JsOr(Get(state.summary, "testsPass"), "false"),
   lintPass |-> JsOr(Get(state.summary, "lintPass"), "false"),
   auditPass |-> JsOr(Get(state.summary, "auditPass"), "false")]

NoGates ==
  [verificationPassed |-> "undefined", testsPass |-> "undefined",
   lintPass |-> "undefined", auditPass |-> "undefined"]

\* gatesPass with the verificationPassed gate left out of the loop
gatesPassSkipsVerification(gates) ==
  \A gate \in DOMAIN gates \ {"verificationPassed"} : Truthy(gates[gate])

\* lines 240-247: gatesPass after the loop over the gates
gatesPass(gates) == \A gate \in DOMAIN gates : Truthy(gates[gate])

\* one line of output, or one command executed
Event(ev) == [ev |-> ev, file |-> "", expected |-> <<>>, actual |-> <<>>]

ModifiedEvent(mod) ==
  [ev |-> "modified", file |-> mod.file, expected |-> mod.expected,
   actual |-> mod.actual]

MissingEvent(file) ==
  [ev |-> "missing", file |-> file, expected |-> <<>>, actual |-> <<>>]

\* lines 263-267: one entry of output per modified file
ModifiedLines(list) == [i \in 1..Len(list) |-> ModifiedEvent(list[i])]

\* lines 275-277: one entry of output per missing file
MissingLines(list) == [i \in 1..Len(list) |-> MissingEvent(list[i])]

\* what a run found when it started: the tracked files and the record
Found(fs, file) == [tree |-> fs, stateFile |-> file]

\* the run has printed this line, or executed this command
PrintedIn(out, ev) == \E i \in 1..Len(out) : out[i].ev = ev

\* what a finished run decided: allow or deny, and the two lists
Outcome(s, out) ==
  [allow |-> \E i \in 1..Len(out) : out[i].ev = "ALL CHECKS PASSED - READY TO SHIP",
   modified |-> s.integrityResults.modified,
   missing |-> s.integrityResults.missing]

\* no run before this one
NoRun ==
  [ran |-> FALSE, began |-> Found([p \in Paths |-> "ENOENT"], NoFile),
   outcome |-> [allow |-> FALSE, modified |-> <<>>, missing |-> <<>>],
   warned |-> FALSE]

\* the locals of createPullRequest before it is called
NoPr ==
  [checked |-> FALSE, branch |-> "null", defaultBranch |-> "main",
   ghCheck |-> FALSE]

\* began and earlier are not variables of ship.js: they keep what this run
\* found on disk when it started, and what the run before it found and
\* decided.  hoursSinceVerify and pr are not kept when the process has
\* exited.
ShipIdle ==
  [pc |-> "idle", options |-> [createPR |-> FALSE, dryRun |-> FALSE],
   state |-> NoFile, gates |-> NoGates, integrityResults |-> NoResults,
   phases |-> <<>>, exit |-> "-", hoursSinceVerify |-> 0, pr |-> NoPr,
   args |-> <<>>,
   began |-> Found([p \in Paths |-> "ENOENT"], NoFile), earlier |-> NoRun]

\* node scripts/ship.js [options]
ShipStart ==
  /\ ship.pc \in {"idle", "done"}
  /\ verify.pc \in {"idle", "done"}
  /\ \E options \in ShipOptions :
       ship' = [ShipIdle EXCEPT
         !.pc = "load", !.options = options,
         !.began = Found(tree, stateFile),
         !.earlier = IF ship.pc = "done"
                       THEN [ran |-> TRUE, began |-> ship.began,
                             outcome |-> Outcome(ship, shipOut),
                             warned |-> PrintedIn(shipOut, "WARNING: Verification is old")]
                       ELSE NoRun]
  /\ shipOut' = <<>>
  /\ UNCHANGED <<tree, stateFile, aiResultFile, verify, review>>

\* DEFAULT_STATE_PATH of line 25, and a path a caller gives with --state
DEFAULT_STATE_PATH == ".workflow/state/verify-state.json"
OtherStatePath == "release/verify-state.json"

\* options.statePath as lines 28-33 set it: args is not searched for
\* --state
statePath(args) == DEFAULT_STATE_PATH

\* node scripts/ship.js --state <path> [options]; of args the --state part
\* is kept
ShipStartState ==
  /\ ship.pc \in {"idle", "done"}
  /\ verify.pc \in {"idle", "done"}
  /\ \E options \in ShipOptions :
       ship' = [ShipIdle EXCEPT
         !.pc = "load", !.options = options,
         !.args = <<"--state", OtherStatePath>>,
         !.began = Found(tree, stateFile),
         !.earlier = IF ship.pc = "done"
                       THEN [ran |-> TRUE, began |-> ship.began,
                             outcome |-> Outcome(ship, shipOut),
                             warned |-> PrintedIn(shipOut, "WARNING: Verification is old")]
                       ELSE NoRun]
  /\ shipOut' = <<>>
  /\ UNCHANGED <<tree, stateFile, aiResultFile, verify, review>>

\* ShipLoadFails with process.exit(0)
ShipLoadFailsExitsZero ==
  /\ ship.pc = "load"
  /\ stateFile.kind # "json"
  /\ ship' = [ship EXCEPT !.pc = "done", !.exit = "0"]
  /\ shipOut' = Append(shipOut, Event(IF stateFile.kind = "absent"
                                        THEN "ERROR: Verification state not found"
                                        ELSE "ERROR: Failed to parse verification state"))
  /\ UNCHANGED <<tree, stateFile, aiResultFile, verify, review>>

\* lines 220-224 with loadVerifyState: no record, or one that does not
\* parse, ends the run
ShipLoadFails ==
  /\ ship.pc = "load"
  /\ stateFile.kind # "json"
  /\ ship' = [ship EXCEPT !.pc = "done", !.exit = "1"]
  /\ shipOut' = Append(shipOut, Event(IF stateFile.kind = "absent"
                                        THEN "ERROR: Verification state not found"
                                        ELSE "ERROR: Failed to parse verification state"))
  /\ UNCHANGED <<tree, stateFile, aiResultFile, verify, review>>

\* age in hours above which the record is called stale (line 233)
StaleHours == 4

\* the largest age of a record considered, in hours
MaxAgeHours == 5

\* ShipLoad with an old record ending the run
ShipLoadDeniesStale ==
  /\ ship.pc = "load"
  /\ stateFile.kind = "json"
  /\ \E hoursSinceVerify \in 0..MaxAgeHours :
       IF hoursSinceVerify > StaleHours
         THEN /\ ship' = [ship EXCEPT !.pc = "done", !.state = stateFile,
                                      !.exit = "1",
                                      !.phases = Append(@, "Loaded")]
              /\ shipOut' = Append(shipOut, Event("WARNING: Verification is old"))
         ELSE /\ ship' = [ship EXCEPT !.pc = "gates", !.state = stateFile,
                                      !.hoursSinceVerify = hoursSinceVerify,
                                      !.phases = Append(@, "Loaded")]
              /\ shipOut' = shipOut
  /\ UNCHANGED <<tree, stateFile, aiResultFile, verify, review>>

\* lines 220-236: the record is loaded; a warning when it is old
ShipLoad ==
  /\ ship.pc = "load"
  /\ stateFile.kind = "json"
  /\ \E hoursSinceVerify \in 0..MaxAgeHours :
       /\ ship' = [ship EXCEPT !.pc = "gates", !.state = stateFile,
                                !.hoursSinceVerify = hoursSinceVerify,
                                !.phases = Append(@, "Loaded")]
       /\ shipOut' = IF hoursSinceVerify > StaleHours
                       THEN Append(shipOut, Event("WARNING: Verification is old"))
                       ELSE shipOut
  /\ UNCHANGED <<tree, stateFile, aiResultFile, verify, review>>

\* ShipCheckGates without the process.exit(1) after the error message
ShipCheckGatesGoesOn ==
  /\ ship.pc = "gates"
  /\ LET gates == checkGates(ship.state)
     IN  /\ ship' = [ship EXCEPT !.gates = gates, !.pc = "integrity"]
         /\ shipOut' = IF gatesPass(gates) THEN shipOut
                       ELSE Append(shipOut, Event("ERROR: Not all gates passed"))
  /\ UNCHANGED <<tree, stateFile, aiResultFile, verify, review>>

\* lines 238-253: the gates; a gate that did not pass ends the run
ShipCheckGates ==
  /\ ship.pc = "gates"
  /\ LET gates == checkGates(ship.state)
     IN  IF gatesPass(gates)
           THEN /\ ship' = [ship EXCEPT !.gates = gates, !.pc = "integrity"]
                /\ shipOut' = shipOut
           ELSE /\ ship' = [ship EXCEPT !.gates = gates, !.pc = "done", !.hoursSinceVerify = 0, !.exit = "1",
                                        !.phases = Append(@, "Decided")]
                /\ shipOut' = Append(shipOut, Event("ERROR: Not all gates passed"))
  /\ UNCHANGED <<tree, stateFile, aiResultFile, verify, review>>

\* lines 255-259: re-hash the snapshot
ShipVerifyIntegrity ==
  /\ ship.pc = "integrity"
  /\ ship' = [ship EXCEPT
       !.integrityResults = verifyFileIntegrity(tree, ship.state),
       !.phases = Append(@, "Integrity-Checked"),
       !.pc = "decide"]
  /\ UNCHANGED <<tree, stateFile, aiResultFile, verify, review, shipOut>>

\* lines 261-271: modified files are listed and end the run
ShipModified ==
  /\ ship.pc = "decide"
  /\ Len(ship.integrityResults.modified) > 0
  /\ shipOut' = shipOut \o ModifiedLines(ship.integrityResults.modified)
  /\ ship' = [ship EXCEPT !.pc = "done", !.hoursSinceVerify = 0, !.exit = "1",
                           !.phases = Append(@, "Decided")]
  /\ UNCHANGED <<tree, stateFile, aiResultFile, verify, review>>

\* lines 273-279: missing files are listed and end the run
ShipMissing ==
  /\ ship.pc = "decide"
  /\ Len(ship.integrityResults.modified) = 0
  /\ Len(ship.integrityResults.missing) > 0
  /\ shipOut' = shipOut \o MissingLines(ship.integrityResults.missing)
  /\ ship' = [ship EXCEPT !.pc = "done", !.hoursSinceVerify = 0, !.exit = "1",
                           !.phases = Append(@, "Decided")]
  /\ UNCHANGED <<tree, stateFile, aiResultFile, verify, review>>

\* ShipReady with the record removed once it has allowed a release
ShipReadyRemovesRecord ==
  /\ ship.pc = "decide"
  /\ Len(ship.integrityResults.modified) = 0
  /\ Len(ship.integrityResults.missing) = 0
  /\ shipOut' = Append(shipOut, Event("ALL CHECKS PASSED - READY TO SHIP"))
  /\ ship' = IF ship.options.createPR
               THEN [ship EXCEPT !.pc = "pr", !.phases = Append(@, "Decided")]
               ELSE [ship EXCEPT !.pc = "done", !.hoursSinceVerify = 0, !.exit = "0",
                                 !.phases = Append(@, "Decided")]
  /\ stateFile' = NoFile
  /\ UNCHANGED <<tree, aiResultFile, verify, review>>

\* lines 281-300: all checks passed; without --create-pr the run ends here
ShipReady ==
  /\ ship.pc = "decide"
  /\ Len(ship.integrityResults.modified) = 0
  /\ Len(ship.integrityResults.missing) = 0
  /\ shipOut' = Append(shipOut, Event("ALL CHECKS PASSED - READY TO SHIP"))
  /\ ship' = IF ship.options.createPR
               THEN [ship EXCEPT !.pc = "pr", !.phases = Append(@, "Decided")]
               ELSE [ship EXCEPT !.pc = "done", !.hoursSinceVerify = 0, !.exit = "0",
                                 !.phases = Append(@, "Decided")]
  /\ UNCHANGED <<tree, stateFile, aiResultFile, verify, review>>

\* what getCurrentBranch finds: null when git fails or names no branch
Branches == {"null", "main", "feature"}

\* what getDefaultBranch finds
DefaultBranches == {"main", "master"}

\* ShipPreparePR without the comparison of the two branches
ShipPreparePRFromDefault ==
  /\ ship.pc = "pr"
  /\ ~ship.pr.checked
  /\ \E branch \in Branches, defaultBranch \in DefaultBranches, ghFound \in BOOLEAN :
       LET entered == Append(shipOut, Event("Preparing pull request..."))
       IN  IF branch # "null" /\ ghFound
             THEN /\ shipOut' = entered
                  /\ ship' = [ship EXCEPT !.pr = [checked |-> TRUE, branch |-> branch,
                                                  defaultBranch |-> defaultBranch,
                                                  ghCheck |-> ghFound]]
             ELSE /\ shipOut' = Append(entered, Event("ERROR: cannot create PR"))
                  /\ ship' = [ship EXCEPT
                       !.pc = "done", !.hoursSinceVerify = 0,
                       !.exit = IF ship.options.dryRun THEN "0" ELSE "1"]
  /\ UNCHANGED <<tree, stateFile, aiResultFile, verify, review>>

\* createPullRequest, lines 141-161: the current branch, the default
\* branch and the gh CLI; when one of them stops the release, main (lines
\* 288-300) exits with 1, and with 0 in a dry run
ShipPreparePR ==
  /\ ship.pc = "pr"
  /\ ~ship.pr.checked
  /\ \E branch \in Branches, defaultBranch \in DefaultBranches, ghFound \in BOOLEAN :
       LET entered == Append(shipOut, Event("Preparing pull request..."))
       IN  IF branch # "null" /\ branch # defaultBranch /\ ghFound
             THEN /\ shipOut' = entered
                  /\ ship' = [ship EXCEPT !.pr = [checked |-> TRUE, branch |-> branch,
                                                  defaultBranch |-> defaultBranch,
                                                  ghCheck |-> ghFound]]
             ELSE /\ shipOut' = Append(entered, Event("ERROR: cannot create PR"))
                  /\ ship' = [ship EXCEPT
                       !.pc = "done", !.hoursSinceVerify = 0,
                       !.exit = IF ship.options.dryRun THEN "0" ELSE "1"]
  /\ UNCHANGED <<tree, stateFile, aiResultFile, verify, review>>

\* createPullRequest, lines 163-207, and lines 288-300 of main: the
\* command is echoed in a dry run and executed otherwise
ShipCreatePR ==
  /\ ship.pc = "pr"
  /\ ship.pr.checked
  /\ \E ghOk \in BOOLEAN :
       LET prSuccess == ship.options.dryRun \/ ghOk
       IN  /\ shipOut' =
                IF ship.options.dryRun
                  THEN Append(shipOut, Event("[DRY RUN] Would execute: gh pr create"))
                  ELSE shipOut \o
                       <<Event("gh pr create"),
                         Event(IF ghOk THEN "Pull request created successfully!"
                               ELSE "Failed to create pull request")>>
           /\ ship' = [ship EXCEPT
                !.pc = "done", !.hoursSinceVerify = 0, !.pr = NoPr,
                !.exit = IF ~prSuccess /\ ~ship.options.dryRun THEN "1" ELSE "0"]
  /\ UNCHANGED <<tree, stateFile, aiResultFile, verify, review>>

(***************************************************************************)
(* The environment: the tree changes under the scripts                     *)
(***************************************************************************)
\* a file is written, created, deleted or made unreadable; the tree is
\* taken to hold still while a ship run reads it
TreeChange ==
  /\ ship.pc = "idle"
  /\ \E p \in Paths, f \in FileStates :
       /\ f # tree[p]
       /\ tree' = [tree EXCEPT ![p] = f]
  /\ UNCHANGED <<stateFile, aiResultFile, verify, review, ship, shipOut>>

(***************************************************************************)
(* Specifications                                                          *)
(***************************************************************************)
\* Spec: one verify run and the ship runs around it, on a tree that does
\* not change.  No record has been written yet.
Init ==
  /\ tree = [p \in Paths |-> "v1"]
  /\ stateFile = NoFile
  /\ aiResultFile \in {NoFile, CorruptFile}
  /\ verify = VerifyIdle
  /\ review = ReviewIdle
  /\ ship = ShipIdle
  /\ shipOut = <<>>

\* With the tree unchanged since the snapshot, ShipModified and ShipMissing
\* are never enabled; SpecShip has them.
Next ==
  \/ VerifyStart
  \/ VerifySnapshot
  \/ VerifyRunTests
  \/ VerifyRunLint
  \/ VerifyRunAudit
  \/ VerifySkipAiReview
  \/ VerifySpawnReview
  \/ VerifyReviewReturned
  \/ VerifyReviewKilled
  \/ VerifyWrite
  \/ VerifyExit
  \/ ReviewGather
  \/ ReviewSecurity
  \/ ReviewQuality
  \/ ReviewFinish
  \/ ShipStart
  \/ ShipLoadFails
  \/ ShipLoad
  \/ ShipCheckGates
  \/ ShipVerifyIntegrity
  \/ ShipReady
  \/ ShipPreparePR
  \/ ShipCreatePR

Spec == Init /\ [][Next]_vars

\* SpecShip: ship runs against a record that an earlier verify run wrote
\* (or against none, or a damaged one), on a tree that changes.  The gate
\* results of that verify run: each gate passed, failed or skipped.
TestsCases ==
  {runTests(skip, "has script", [status |-> st, words |-> {}]) :
     skip \in BOOLEAN, st \in {0, 1}}

LintCases ==
  {runLint(FALSE, "has script", [status |-> st, words |-> {}]) : st \in {0, 1}}

AuditCases == {runAudit(run) : run \in CommandRuns}

AiReviewCases ==
  {AiSkipped("undefined")} \cup
  {collectAiReview(tier = "LOW",
                   ReviewResults(ReviewObj("undefined", "undefined", tier), NullObj)) :
     tier \in {"LOW", "HIGH"}}

\* the tree as it was when verify ran: up to the names of the paths and of
\* the contents, every file tracked and readable, one absent, one
\* unreadable, or none there
VerifiedTrees ==
  {[p \in Paths |-> IF p = "src/a.js" THEN a ELSE b] :
     a \in {"v1"}, b \in {"v1", "ENOENT", "EACCES"}}
  \cup {[p \in Paths |-> "ENOENT"]}

InitShip ==
  /\ tree \in VerifiedTrees
  /\ \/ stateFile \in {NoFile, CorruptFile}
     \/ \E t \in TestsCases, l \in LintCases, a \in AuditCases, ai \in AiReviewCases :
          stateFile = RecordOf(VerifyState(fileHashes(tree), t, l, a, ai))
  /\ aiResultFile = NoFile
  /\ verify = VerifyIdle
  /\ review = ReviewIdle
  /\ ship = ShipIdle
  /\ shipOut = <<>>

\* summaries of records that no verify run wrote: none or an empty one,
\* and ones that lack a flag
EditedSummaries ==
  {EmptyObj,
   [overallPass |-> "true"],
   [testsPass |-> "true", lintPass |-> "true", auditPass |-> "true",
    aiReviewPass |-> "true"],
   [overallPass |-> "true", testsPass |-> "true", lintPass |-> "true"]}

\* SpecShipEdited: as SpecShip, the record being one that verify wrote or
\* such a record with its summary edited
InitShipEdited ==
  /\ tree \in VerifiedTrees
  /\ \/ stateFile \in {NoFile, CorruptFile}
     \/ \E t \in TestsCases, l \in LintCases, a \in AuditCases, ai \in AiReviewCases :
          stateFile = RecordOf(VerifyState(fileHashes(tree), t, l, a, ai))
     \/ \E summary \in EditedSummaries :
          stateFile =
            [RecordOf(VerifyState(fileHashes(tree),
                                  runTests(FALSE, "has script", [status |-> 0, words |-> {}]),
                                  runLint(FALSE, "has script", [status |-> 0, words |-> {}]),
                                  runAudit([status |-> 0, words |-> {}]),
                                  AiSkipped("undefined")))
               EXCEPT !.summary = summary]
  /\ aiResultFile = NoFile
  /\ verify = VerifyIdle
  /\ review = ReviewIdle
  /\ ship = ShipIdle
  /\ shipOut = <<>>

NextShip ==
  \/ ShipStart
  \/ ShipLoadFails
  \/ ShipLoad
  \/ ShipCheckGates
  \/ ShipVerifyIntegrity
  \/ ShipModified
  \/ ShipMissing
  \/ ShipReady
  \/ ShipPreparePR
  \/ ShipCreatePR
  \/ TreeChange

SpecShip == InitShip /\ [][NextShip]_vars

\* SpecVerifyAgain: a verify run with its review subprocess, started on the
\* files an earlier run left.  What the review of the earlier run can
\* have left in ai-review.json: nothing, a passing result, a failing one
LeftResults ==
  {NoFile} \cup
  {ReviewResults(ReviewObj("undefined", "undefined", tier), NullObj) :
     tier \in {"LOW", "HIGH"}}

InitVerifyAgain ==
  /\ tree = [p \in Paths |-> "v1"]
  /\ stateFile = NoFile
  /\ aiResultFile \in LeftResults
  /\ verify = VerifyIdle
  /\ review = ReviewIdle
  /\ ship = ShipIdle
  /\ shipOut = <<>>

NextVerifyAgain ==
  \/ VerifyStart
  \/ VerifySnapshot
  \/ VerifyRunTests
  \/ VerifyRunLint
  \/ VerifyRunAudit
  \/ VerifySkipAiReview
  \/ VerifySpawnReview
  \/ VerifyReviewReturned
  \/ VerifyReviewKilled
  \/ VerifyWrite
  \/ VerifyExit
  \/ ReviewGather
  \/ ReviewSecurity
  \/ ReviewQuality
  \/ ReviewFinish

SpecVerifyAgain == InitVerifyAgain /\ [][NextVerifyAgain]_vars

\* SpecShipState: the ship runs of SpecShip started with --state, the
\* default path holding what InitShip puts there and the path given
\* holding the record of a run in which every gate passed
OtherStateFile ==
  RecordOf(VerifyState(fileHashes([p \in Paths |-> "v1"]),
                       runTests(FALSE, "has script", [status |-> 0, words |-> {}]),
                       runLint(FALSE, "has script", [status |-> 0, words |-> {}]),
                       runAudit([status |-> 0, words |-> {}]),
                       AiSkipped("undefined")))

\* the file at a path
FileAt(path) ==
  IF path = DEFAULT_STATE_PATH THEN stateFile ELSE OtherStateFile

NextShipState ==
  \/ ShipStartState
  \/ ShipLoadFails
  \/ ShipLoad
  \/ ShipCheckGates
  \/ ShipVerifyIntegrity
  \/ ShipModified
  \/ ShipMissing
  \/ ShipReady
  \/ ShipPreparePR
  \/ ShipCreatePR
  \/ TreeChange

SpecShipState == InitShip /\ [][NextShipState]_vars

(***************************************************************************)
(* ai-review.js: parseGeminiResponse                                       *)
(*                                                                         *)
(* A response text is a sequence of lexical units: the JSON punctuation,   *)
(* the double quote, letters, a digit, the literal true, a space, a        *)
(* newline, the fence ``` and the language tag json.                       *)
(***************************************************************************)
Quote == "\""

\* the unit that stands for the three backquotes of a fence
Fence == "fence"

Whitespace == {" ", "\n"}

RECURSIVE skipWs(_, _)
\* the first index at or after i that holds no whitespace
skipWs(t, i) ==
  IF i <= Len(t) /\ t[i] \in Whitespace THEN skipWs(t, i + 1) ELSE i

RECURSIVE stringEnd(_, _)
\* JSON.parse inside a string literal, i being past the opening quote: the
\* index past the closing quote, 0 when the string does not end or holds a
\* raw newline
stringEnd(t, i) ==
  IF i > Len(t) \/ t[i] = "\n" THEN 0
  ELSE IF t[i] = Quote THEN i + 1
  ELSE stringEnd(t, i + 1)

RECURSIVE numberEnd(_, _)
numberEnd(t, i) ==
  IF i <= Len(t) /\ t[i] = "1" THEN numberEnd(t, i + 1) ELSE i

RECURSIVE valueEnd(_, _)
RECURSIVE membersEnd(_, _)
RECURSIVE elementsEnd(_, _)
\* JSON.parse reading one value from index i: the index past the value, 0
\* when there is a syntax error
valueEnd(t, i) ==
  LET j == skipWs(t, i)
  IN  IF j > Len(t) THEN 0
      ELSE IF t[j] = "{"
        THEN LET k == skipWs(t, j + 1)
             IN  IF k <= Len(t) /\ t[k] = "}" THEN k + 1 ELSE membersEnd(t, k)
      ELSE IF t[j] = "["
        THEN LET k == skipWs(t, j + 1)
             IN  IF k <= Len(t) /\ t[k] = "]" THEN k + 1 ELSE elementsEnd(t, k)
      ELSE IF t[j] = Quote THEN stringEnd(t, j + 1)
      ELSE IF t[j] = "1" THEN numberEnd(t, j)
      ELSE IF t[j] = "true" THEN j + 1
      ELSE 0

\* the members of an object from the key at index i to the closing brace
membersEnd(t, i) ==
  IF i > Len(t) \/ t[i] # Quote THEN 0
  ELSE LET s == stringEnd(t, i + 1)
           c == skipWs(t, s)
           v == valueEnd(t, c + 1)
           e == skipWs(t, v)
       IN  IF s = 0 \/ c > Len(t) THEN 0
           ELSE IF t[c] # ":" \/ v = 0 \/ e > Len(t) THEN 0
           ELSE IF t[e] = "}" THEN e + 1
           ELSE IF t[e] = "," THEN membersEnd(t, skipWs(t, e + 1))
           ELSE 0

\* the elements of an array from the value at index i to the closing bracket
elementsEnd(t, i) ==
  LET v == valueEnd(t, i)
      e == skipWs(t, v)
  IN  IF v = 0 \/ e > Len(t) THEN 0
      ELSE IF t[e] = "]" THEN e + 1
      ELSE IF t[e] = "," THEN elementsEnd(t, e + 1)
      ELSE 0

RECURSIVE documentOf(_, _, _)
\* the value JSON.parse builds from a valid text: the text from index i
\* without the whitespace between its tokens
documentOf(t, i, inString) ==
  IF i > Len(t) THEN <<>>
  ELSE IF ~inString /\ t[i] \in Whitespace THEN documentOf(t, i + 1, inString)
  ELSE <<t[i]>> \o documentOf(t, i + 1, IF t[i] = Quote THEN ~inString ELSE inString)

\* JSON.parse(text): the value, or threw
JSONparse(t) ==
  LET e == valueEnd(t, 1)
  IN  IF e # 0 /\ skipWs(t, e) = Len(t) + 1
        THEN [threw |-> FALSE, value |-> documentOf(t, 1, FALSE)]
        ELSE [threw |-> TRUE, value |-> <<>>]

RECURSIVE trimEnd(_)
trimEnd(t) ==
  IF t # <<>> /\ t[Len(t)] \in Whitespace THEN trimEnd(SubSeq(t, 1, Len(t) - 1)) ELSE t

\* response.trim()
trim(t) == trimEnd(SubSeq(t, skipWs(t, 1), Len(t)))

\* what parseGeminiResponse returns: the parsed document, or the fallback
\* object {summary: response, issues: [], raw: true}
Verdict(document, summary, raw) ==
  [document |-> document, summary |-> summary, issues |-> <<>>, raw |-> raw]

\* a strategy that found nothing to return
NoValue == [threw |-> TRUE, value |-> <<>>]

\* strategy 1 (lines 300-304)
strategy1(response) == JSONparse(trim(response))

\* the regular expression of line 307 at an opening fence at index i:
\* ``` (?:json)? \s* \n, then the group, which starts with an opening
\* brace; the index of that brace, 0 when there is no match here
groupStart(t, i) ==
  IF t[i] # Fence THEN 0
  ELSE LET a == IF i + 1 <= Len(t) /\ t[i + 1] = "json" THEN i + 2 ELSE i + 1
           b == skipWs(t, a)
       IN  IF b > a /\ b <= Len(t) /\ t[b - 1] = "\n" /\ t[b] = "{" THEN b ELSE 0

\* a closing brace at index j followed by \s* \n ```
groupEndsAt(t, j) ==
  /\ t[j] = "}"
  /\ LET e == skipWs(t, j + 1)
     IN  e > j + 1 /\ e <= Len(t) /\ t[e - 1] = "\n" /\ t[e] = Fence

\* response.match(...) of line 307: the group of the leftmost match, the
\* group being the shortest one ([\s\S]*? is lazy); <<>> when no match
fencedMatch(t) ==
  LET Ends(i) == {j \in (groupStart(t, i) + 1)..Len(t) : groupEndsAt(t, j)}
      starts == {i \in 1..Len(t) : groupStart(t, i) # 0 /\ Ends(i) # {}}
  IN  IF starts = {} THEN <<>>
      ELSE LET i == CHOOSE x \in starts : \A y \in starts : x <= y
               j == CHOOSE x \in Ends(i) : \A y \in Ends(i) : x <= y
           IN  SubSeq(t, groupStart(t, i), j)

\* strategy 2 (lines 306-314)
strategy2(response) ==
  IF fencedMatch(response) = <<>> THEN NoValue
  ELSE JSONparse(fencedMatch(response))

\* response.indexOf('{'), 0 for -1
indexOfBrace(t) ==
  IF \E i \in 1..Len(t) : t[i] = "{"
    THEN CHOOSE i \in 1..Len(t) : t[i] = "{" /\ \A k \in 1..(i - 1) : t[k] # "{"
    ELSE 0

RECURSIVE balancedEnd(_, _, _)
\* the loop of lines 320-331: the index at which the depth is back to
\* zero, 0 when the text ends first
balancedEnd(t, i, depth) ==
  IF i > Len(t) THEN 0
  ELSE LET d == IF t[i] = "{" THEN depth + 1
                ELSE IF t[i] = "}" THEN depth - 1
                ELSE depth
       IN  IF d = 0 THEN i ELSE balancedEnd(t, i + 1, d)

\* the first opening brace from index i on whose balanced text parses
RECURSIVE candidateFrom(_, _)
candidateFrom(t, i) ==
  IF i > Len(t) THEN NoValue
  ELSE IF t[i] # "{" THEN candidateFrom(t, i + 1)
  ELSE LET end == balancedEnd(t, i, 0)
       IN  IF end # 0 /\ ~JSONparse(SubSeq(t, i, end)).threw
             THEN JSONparse(SubSeq(t, i, end))
             ELSE candidateFrom(t, i + 1)

\* strategy3 going on to the next opening brace when a candidate fails
strategy3TriesLaterBraces(response) == candidateFrom(response, 1)

\* strategy3 returning the balanced candidate without parsing it
strategy3Unparsed(response) ==
  LET start == indexOfBrace(response)
      end == balancedEnd(response, start, 0)
  IN  IF start = 0 THEN NoValue
      ELSE IF end = 0 THEN NoValue
      ELSE [threw |-> FALSE, value |-> SubSeq(response, start, end)]

\* strategy 3 (lines 316-333): the one candidate from the first opening
\* brace to where the braces balance
strategy3(response) ==
  LET start == indexOfBrace(response)
      end == balancedEnd(response, start, 0)
  IN  IF start = 0 THEN NoValue
      ELSE IF end = 0 THEN NoValue
      ELSE JSONparse(SubSeq(response, start, end))

\* parseGeminiResponse with the balanced braces tried before the fence
parseGeminiResponseBracesFirst(response) ==
  IF ~strategy1(response).threw
    THEN Verdict(strategy1(response).value, <<>>, "undefined")
  ELSE IF ~strategy3(response).threw
    THEN Verdict(strategy3(response).value, <<>>, "undefined")
  ELSE IF ~strategy2(response).threw
    THEN Verdict(strategy2(response).value, <<>>, "undefined")
  ELSE Verdict(<<>>, response, "true")

\* parseGeminiResponse(response)
parseGeminiResponse(response) ==
  IF ~strategy1(response).threw
    THEN Verdict(strategy1(response).value, <<>>, "undefined")
  ELSE IF ~strategy2(response).threw
    THEN Verdict(strategy2(response).value, <<>>, "undefined")
  ELSE IF ~strategy3(response).threw
    THEN Verdict(strategy3(response).value, <<>>, "undefined")
  ELSE Verdict(<<>>, response, "true")

(***************************************************************************)
(* SpecReviewer: one reply of the reviewer, parsed                         *)
(***************************************************************************)
\* structured documents as the reviewer writes them: flat, nested, with
\* brace characters inside a string value, and pretty-printed
Documents ==
  {<<"{", Quote, "a", Quote, ":", "1", "}">>,
   <<"{", Quote, "a", Quote, ":", "{", Quote, "b", Quote, ":", "1", "}", "}">>,
   <<"{", Quote, "a", Quote, ":", "{", "}", "\n", "}">>,
   <<"{", Quote, "a", Quote, ":", Quote, "{", "b", "}", Quote, "}">>,
   <<"{", Quote, "a", Quote, ":", Quote, "}", Quote, "}">>,
   <<"{", Quote, "a", Quote, ":", Quote, "{", Quote, "}">>,
   <<"{", "\n", " ", Quote, "a", Quote, ":", " ", "[", "]", ",", "\n",
     " ", Quote, "b", Quote, ":", " ", "true", "\n", "}">>}

\* texts in braces that are no structured document
Malformed ==
  {<<"{", Quote, "a", Quote, ":", "}">>,
   <<"{", "a", "}">>,
   <<"{", Quote, "a", Quote, ":", "1">>}

Prose == <<"a", " ", "b">>

\* a payload in a fenced block, with or without the language tag
Fenced(payload, tag) ==
  (IF tag THEN <<Fence, "json", "\n">> ELSE <<Fence, "\n">>)
    \o payload \o <<"\n", Fence>>

\* a payload with explanatory prose around it and no fence
InProse(payload) == Prose \o <<" ">> \o payload \o <<"\n">> \o Prose

\* the ways a reply carries a payload
Wrapped(payload) ==
  {payload,
   <<" ", "\n">> \o payload \o <<"\n">>,
   Fenced(payload, TRUE),
   Fenced(payload, FALSE),
   Prose \o <<"\n">> \o Fenced(payload, TRUE) \o <<"\n">> \o Prose,
   <<Fence, "\n">> \o payload \o <<Fence>>,
   InProse(payload),
   <<"{", "a", "}", " ">> \o payload,
   <<"{", Quote, "b", Quote, ":", "1", "}", "\n">> \o Fenced(payload, FALSE)}

\* the longest reply made of arbitrary units
MaxShort == 3

ShortUnits == {"{", "}", Quote, "a", "\n", Fence, "1", ":"}

\* the reply texts: every short text, and every payload in every wrapping
Responses ==
  UNION {[1..n -> ShortUnits] : n \in 0..MaxShort}
  \cup UNION {Wrapped(payload) : payload \in Documents \cup Malformed}

NoVerdict == Verdict(<<>>, <<>>, "undefined")

\* the bodies with which a response can end (lines 262-281): the candidates
\* with their text, a structured error body, a body of another form, and a
\* body that is no JSON
Bodies ==
  {[kind |-> "candidates", text |-> r] : r \in Responses}
  \cup {[kind |-> k, text |-> <<>>] : k \in {"error", "other", "unparsable"}}

\* the promise callGemini returns and the request behind it: ran lists the
\* handlers that have run, in order
PendingCall ==
  [state |-> "pending", text |-> <<>>, message |-> "undefined",
   destroyed |-> FALSE, ran |-> <<>>]

\* resolve(text): a promise settles once, later calls have no effect
resolve(call, text) ==
  IF call.state = "pending"
    THEN [call EXCEPT !.state = "resolved", !.text = text]
    ELSE call

\* reject(new Error(message))
reject(call, message) ==
  IF call.state = "pending"
    THEN [call EXCEPT !.state = "rejected", !.message = message]
    ELSE call

Ran(call, handler) == \E i \in 1..Len(call.ran) : call.ran[i] = handler

\* the handler of res 'end' (lines 262-281)
onEnd(call, body) ==
  IF body.kind = "unparsable" THEN reject(call, "Failed to parse Gemini response")
  ELSE IF body.kind = "error" THEN reject(call, "Gemini API error")
  ELSE IF body.kind = "candidates" THEN resolve(call, body.text)
  ELSE reject(call, "Unexpected response format from Gemini")

\* onError with a rejection that replaces an earlier outcome
onErrorOverrides(call) ==
  [call EXCEPT !.state = "rejected", !.message = "Request failed"]

\* the handler of req 'error' (lines 284-286)
onError(call) == reject(call, "Request failed")

\* the callback of req.setTimeout (lines 288-291): destroy, then reject
onTimeout(call) ==
  reject([call EXCEPT !.destroyed = TRUE],
         "Gemini API request timed out after 30 seconds")

\* line 387-399 of main, with the call of line 407 or 435 under way
InitReviewer ==
  /\ tree = [p \in Paths |-> "v1"]
  /\ stateFile = NoFile
  /\ aiResultFile = NoFile
  /\ verify = VerifyIdle
  /\ ship = ShipIdle
  /\ shipOut = <<>>
  /\ review = [pc |-> "calling", call |-> PendingCall, response |-> <<>>,
               error |-> "undefined", parsed |-> NoVerdict]

\* the response ends with one of the given bodies; a destroyed request
\* delivers no response
ResponseEnds(bodies) ==
  /\ ~Ran(review.call, "end")
  /\ ~review.call.destroyed
  /\ \E body \in bodies :
       review' = [review EXCEPT
         !.call = [onEnd(review.call, body) EXCEPT !.ran = Append(@, "end")]]
  /\ UNCHANGED <<tree, stateFile, aiResultFile, verify, ship, shipOut>>

CallResponseEnd == ResponseEnds(Bodies)

\* the request fails: a connection error, or the socket hang up that
\* follows req.destroy()
CallErrorEvent ==
  /\ ~Ran(review.call, "error")
  /\ review' = [review EXCEPT
       !.call = [onError(review.call) EXCEPT !.ran = Append(@, "error")]]
  /\ UNCHANGED <<tree, stateFile, aiResultFile, verify, ship, shipOut>>

\* the socket has been idle for 30 seconds
CallTimeout ==
  /\ ~Ran(review.call, "timeout")
  /\ ~review.call.destroyed
  /\ review' = [review EXCEPT
       !.call = [onTimeout(review.call) EXCEPT !.ran = Append(@, "timeout")]]
  /\ UNCHANGED <<tree, stateFile, aiResultFile, verify, ship, shipOut>>

\* lines 407 and 435: await callGemini(...) returns the text
AwaitReturns ==
  /\ review.pc = "calling"
  /\ review.call.state = "resolved"
  /\ review' = [review EXCEPT !.pc = "received", !.response = review.call.text]
  /\ UNCHANGED <<tree, stateFile, aiResultFile, verify, ship, shipOut>>

\* lines 423-426 and 451-454: await throws, the catch keeps the message
AwaitThrows ==
  /\ review.pc = "calling"
  /\ review.call.state = "rejected"
  /\ review' = [review EXCEPT !.pc = "failed", !.error = review.call.message]
  /\ UNCHANGED <<tree, stateFile, aiResultFile, verify, ship, shipOut>>

\* results.securityReview = parseGeminiResponse(securityResponse)
ParseResponse ==
  /\ review.pc = "received"
  /\ review' = [review EXCEPT !.parsed = parseGeminiResponse(review.response),
                              !.pc = "parsed"]
  /\ UNCHANGED <<tree, stateFile, aiResultFile, verify, ship, shipOut>>

NextReviewer ==
  \/ CallResponseEnd
  \/ CallErrorEvent
  \/ CallTimeout
  \/ AwaitReturns
  \/ AwaitThrows
  \/ ParseResponse

SpecReviewer == InitReviewer /\ [][NextReviewer]_vars

(***************************************************************************)
(* The call with time: req.setTimeout(30000, ...) sets the idle timeout of  *)
(* the socket, which starts again with every chunk the socket receives.     *)
(***************************************************************************)
\* the 30000 ms of line 288, in ticks of the clock
TimeoutTicks == 2

\* chunks counted up to here; MaxChunks stands for that many or more
MaxChunks == 2

\* the call of InitReviewer with the idle time of its socket and the number
\* of chunks appended to data (line 259)
InitCall ==
  /\ tree = [p \in Paths |-> "v1"]
  /\ stateFile = NoFile
  /\ aiResultFile = NoFile
  /\ verify = VerifyIdle
  /\ ship = ShipIdle
  /\ shipOut = <<>>
  /\ review = [pc |-> "calling", call |-> PendingCall, response |-> <<>>,
               error |-> "undefined", parsed |-> NoVerdict,
               idle |-> 0, chunks |-> 0]

\* the request is in flight: not destroyed, not failed, response not ended
InFlight ==
  /\ ~review.call.destroyed
  /\ ~Ran(review.call, "end")
  /\ ~Ran(review.call, "error")

\* time passes with nothing received
Tick ==
  /\ InFlight
  /\ review.idle < TimeoutTicks
  /\ review' = [review EXCEPT !.idle = @ + 1]
  /\ UNCHANGED <<tree, stateFile, aiResultFile, verify, ship, shipOut>>

\* res 'data' (lines 258-260): a chunk arrives, the idle time starts again
CallData ==
  /\ InFlight
  /\ review' = [review EXCEPT
       !.idle = 0,
       !.chunks = IF @ < MaxChunks THEN @ + 1 ELSE MaxChunks]
  /\ UNCHANGED <<tree, stateFile, aiResultFile, verify, ship, shipOut>>

\* the socket has been idle for the whole timeout: its 'timeout' event
SocketTimeout ==
  /\ InFlight
  /\ review.idle = TimeoutTicks
  /\ CallTimeout

\* the bodies of the timed call: those whose text is one unit at most
ShortBodies == {body \in Bodies : Len(body.text) <= 1}

\* the response ends within the time the socket allows
CallEnd ==
  /\ InFlight
  /\ ResponseEnds(ShortBodies)

NextCall ==
  \/ Tick
  \/ CallData
  \/ SocketTimeout
  \/ CallEnd
  \/ CallErrorEvent
  \/ AwaitReturns
  \/ AwaitThrows
  \/ ParseResponse

\* the clock and the event loop go on; the remote endpoint owes nothing
FairCall ==
  /\ WF_vars(Tick)
  /\ WF_vars(SocketTimeout)
  /\ WF_vars(AwaitReturns)
  /\ WF_vars(AwaitThrows)
  /\ WF_vars(ParseResponse)

SpecCall == InitCall /\ [][NextCall]_vars /\ FairCall

(***************************************************************************)
(* ai-review.js: the code context (lines 186-226 and 352-382)              *)
(***************************************************************************)
\* MAX_FILE_SIZE of line 29, in characters of the model's files
MAX_FILE_SIZE == 2

Chars == {"x", "y"}

\* the contents a file can have: up to one character over the bound
Texts == UNION {[1..n -> Chars] : n \in 0..(MAX_FILE_SIZE + 1)}

\* a file as fs.readFileSync(filePath, 'utf-8') and fs.existsSync find it
DiskFiles ==
  {[kind |-> "text", content |-> c] : c \in Texts}
  \cup {[kind |-> k, content |-> <<>>] : k \in {"EACCES", "ENOENT"}}

\* the marker appended to a truncated content (line 195)
Marker == "\n\n... [truncated] ..."

\* findSourceFiles('.'): the source files that exist under src, in the
\* order readdirSync lists them
findSourceFiles(fs) ==
  (IF fs["src/a.js"].kind # "ENOENT" THEN <<"src/a.js">> ELSE <<>>)
  \o (IF fs["src/b.js"].kind # "ENOENT" THEN <<"src/b.js">> ELSE <<>>)

\* readFilesContent that leaves out a file over the bound
RECURSIVE readFilesContentDropsLarge(_, _)
readFilesContentDropsLarge(fs, filePaths) ==
  IF filePaths = <<>> THEN <<>>
  ELSE LET file == fs[Head(filePaths)]
           rest == readFilesContentDropsLarge(fs, Tail(filePaths))
       IN  IF file.kind # "text" \/ Len(file.content) > MAX_FILE_SIZE THEN rest
           ELSE <<[path |-> Head(filePaths), content |-> file.content]>> \o rest

\* readFilesContent(filePaths): a file that cannot be read is left out
\* with a warning, a content over the bound is cut and marked
RECURSIVE readFilesContent(_, _)
readFilesContent(fs, filePaths) ==
  IF filePaths = <<>> THEN <<>>
  ELSE LET file == fs[Head(filePaths)]
           content == IF Len(file.content) > MAX_FILE_SIZE
                        THEN SubSeq(file.content, 1, MAX_FILE_SIZE) \o <<Marker>>
                        ELSE file.content
           rest == readFilesContent(fs, Tail(filePaths))
       IN  IF file.kind # "text" THEN rest
           ELSE <<[path |-> Head(filePaths), content |-> content]>> \o rest

\* path.extname(file.path).slice(1) || 'text'
extname(p) == "js"

\* lines 220-221: the section of one file, its content character by
\* character
RECURSIVE fileSections(_)
fileSections(files) ==
  IF files = <<>> THEN <<>>
  ELSE <<"### ", Head(files).path, "\n\n", Fence, extname(Head(files).path), "\n">>
       \o Head(files).content
       \o <<"\n", Fence, "\n\n">>
       \o fileSections(Tail(files))

\* getGitDiff(): null when git fails, 'No changes detected' for an empty
\* diff, the diff otherwise
GitDiffs == {"null", "No changes detected", "diff --git a/src/a.js b/src/a.js"}

\* buildCodeContext(files, diff)
buildCodeContext(files, diff, useDiff) ==
  (IF diff # "null" /\ useDiff
     THEN <<"## Git Diff (Changes to Review)\n\n", Fence, "diff\n", diff, "\n",
            Fence, "\n\n">>
     ELSE <<>>)
  \o (IF Len(files) > 0
        THEN <<"## Source Files\n\n">> \o fileSections(files)
        ELSE <<>>)

\* the number of characters of a piece of the context
Width(piece) == IF piece = Fence THEN 3 ELSE Len(piece)

RECURSIVE length(_)
length(context) ==
  IF context = <<>> THEN 0 ELSE Width(Head(context)) + length(Tail(context))

\* codeContext.trim().length: a context ends with the two newlines of its
\* last section
trimmedLength(context) ==
  IF context = <<>> THEN 0 ELSE length(context) - 2

\* --files a,b: the lists of paths a caller can give
FileLists ==
  {<<>>, <<"src/a.js">>, <<"src/b.js">>, <<"src/a.js", "src/b.js">>,
   <<"src/b.js", "src/a.js">>}

ContextIdle ==
  [pc |-> "gather", files |-> <<>>, useDiff |-> FALSE, gitDiff |-> "null",
   filesToReview |-> <<>>, fileContents |-> <<>>, codeContext |-> <<>>]

InitContext ==
  /\ tree \in [Paths -> DiskFiles]
  /\ stateFile = NoFile
  /\ aiResultFile = NoFile
  /\ verify = VerifyIdle
  /\ ship = ShipIdle
  /\ shipOut = <<>>
  /\ \E files \in FileLists, useDiff \in BOOLEAN :
       review = [ContextIdle EXCEPT !.files = files, !.useDiff = useDiff]

\* main, lines 352-374: the files to review
GatherFiles ==
  /\ review.pc = "gather"
  /\ IF Len(review.files) > 0
       THEN review' = [review EXCEPT !.filesToReview = review.files,
                                     !.pc = "read"]
       ELSE IF review.useDiff
         THEN \E diff \in GitDiffs :
                review' = [review EXCEPT
                  !.gitDiff = diff,
                  !.filesToReview =
                     IF diff \in {"null", "No changes detected"}
                       THEN findSourceFiles(tree) ELSE <<>>,
                  !.pc = "read"]
         ELSE review' = [review EXCEPT !.filesToReview = findSourceFiles(tree),
                                       !.pc = "read"]
  /\ UNCHANGED <<tree, stateFile, aiResultFile, verify, ship, shipOut>>

\* main, line 377
ReadFiles ==
  /\ review.pc = "read"
  /\ review' = [review EXCEPT
       !.fileContents = readFilesContent(tree, review.filesToReview),
       !.pc = "build"]
  /\ UNCHANGED <<tree, stateFile, aiResultFile, verify, ship, shipOut>>

\* main, lines 378-382: the context; the script exits when it is shorter
\* than 50 characters
BuildContext ==
  /\ review.pc = "build"
  /\ LET codeContext == buildCodeContext(review.fileContents, review.gitDiff,
                                         review.useDiff)
     IN  review' = [review EXCEPT
           !.codeContext = codeContext,
           !.pc = IF trimmedLength(codeContext) < 50 THEN "no code"
                  ELSE "reviewing"]
  /\ UNCHANGED <<tree, stateFile, aiResultFile, verify, ship, shipOut>>

NextContext ==
  \/ GatherFiles
  \/ ReadFiles
  \/ BuildContext

SpecContext == InitContext /\ [][NextContext]_vars

SpecShipEdited == InitShipEdited /\ [][NextShip]_vars

(***************************************************************************)
(* SpecOverlap: a ship run that reads the record while verify writes it    *)
(***************************************************************************)
\* The record as fs.writeFileSync puts it on disk and fs.readFileSync
\* takes it off: the top of the document, down to the end of files.hashes,
\* and the rest of it, from tests to summary.  The top has the same number
\* of bytes in any two records of the same paths (timestamp and digests
\* have fixed widths), so the rest begins at the same offset in both.  run
\* is not in the file: it names the write that a part came from.
Top(record, run) == [run |-> run, hashes |-> record.hashes]

Rest(record, run) ==
  [run |-> run, tests |-> record.tests, lint |-> record.lint,
   audit |-> record.audit, aiReview |-> record.aiReview,
   summary |-> record.summary]

JSONtext(record, run) == <<Top(record, run), Rest(record, run)>>

OnDisk(text) == [kind |-> "bytes", text |-> text]

\* JSON.parse of what was read (ship.js line 74): a document that stops
\* before its closing brace throws
parseRecord(text) ==
  IF Len(text) = 2 /\ "hashes" \in DOMAIN text[1] /\ "summary" \in DOMAIN text[2]
    THEN [kind |-> "json", hashes |-> text[1].hashes, tests |-> text[2].tests,
          lint |-> text[2].lint, audit |-> text[2].audit,
          aiReview |-> text[2].aiReview, summary |-> text[2].summary,
          from |-> <<text[1].run, text[2].run>>]
    ELSE CorruptFile

\* the trees of the two snapshots: both files there, one of them edited
\* between the runs or not
OverlapTrees == {[p \in Paths |-> IF p = "src/a.js" THEN a ELSE "v1"] : a \in Contents}

\* the records of the two runs: the tests gate passed, failed or skipped,
\* the other gates passed
OverlapTests ==
  {runTests(skip, "has script", [status |-> st, words |-> {}]) :
     skip \in BOOLEAN, st \in {0, 1}}

OverlapLint == runLint(FALSE, "has script", [status |-> 0, words |-> {}])

OverlapAudit == runAudit([status |-> 0, words |-> {}])

\* verify is at its write (line 301) with the results of its run; the
\* record of an earlier run is on disk, or none
InitOverlap ==
  /\ tree \in OverlapTrees \cup {[p \in Paths |-> IF p = "src/a.js" THEN "v1" ELSE "ENOENT"]}
  /\ \/ stateFile = NoFile
     \/ \E t \in OverlapTrees, tests \in OverlapTests :
          stateFile = OnDisk(JSONtext(RecordOf(VerifyState(fileHashes(t), tests,
                                OverlapLint, OverlapAudit, AiSkipped("undefined"))),
                              "old"))
  /\ \E t \in OverlapTrees, tests \in OverlapTests :
       verify = [VerifyIdle EXCEPT
                   !.pc = "write", !.fileHashes = fileHashes(t),
                   !.testResults = tests, !.lintResults = OverlapLint,
                   !.auditResults = OverlapAudit,
                   !.aiReviewResults = AiSkipped("undefined")]
  /\ aiResultFile = NoFile
  /\ review = ReviewIdle
  /\ ship = ShipIdle
  /\ shipOut = <<>>

\* fs.writeFileSync, line 301: the file is opened with O_TRUNC, which
\* empties it
VerifyTruncate ==
  /\ verify.pc = "write"
  /\ stateFile' = OnDisk(<<>>)
  /\ verify' = [verify EXCEPT !.pc = "writing"]
  /\ UNCHANGED <<tree, aiResultFile, review, ship, shipOut>>

\* fs.writeFileSync, line 301: the bytes reach the file from the first to
\* the last; a reader sees what has been written so far
VerifyWriteBytes ==
  /\ verify.pc = "writing"
  /\ LET text == JSONtext(RecordOf(VerifyState(verify.fileHashes, verify.testResults,
                                               verify.lintResults, verify.auditResults,
                                               verify.aiReviewResults)), "new")
         n == Len(stateFile.text) + 1
     IN  /\ stateFile' = OnDisk(Append(stateFile.text, text[n]))
         /\ verify' = [verify EXCEPT !.pc = IF n = Len(text) THEN "exit" ELSE "writing"]
  /\ UNCHANGED <<tree, aiResultFile, review, ship, shipOut>>

\* node scripts/ship.js [options], started without regard to verify
ShipStartOverlapping ==
  /\ ship.pc = "idle"
  /\ \E options \in ShipOptions :
       ship' = [ShipIdle EXCEPT !.pc = "load", !.options = options,
                                !.began = Found(tree, stateFile)]
  /\ shipOut' = <<>>
  /\ UNCHANGED <<tree, stateFile, aiResultFile, verify, review>>

\* loadVerifyState, lines 67-71: fs.existsSync
ShipNotFound ==
  /\ ship.pc = "load"
  /\ stateFile.kind = "absent"
  /\ ship' = [ship EXCEPT !.pc = "done", !.exit = "1"]
  /\ shipOut' = Append(shipOut, Event("ERROR: Verification state not found"))
  /\ UNCHANGED <<tree, stateFile, aiResultFile, verify, review>>

\* loadVerifyState, line 74: fs.readFileSync opens the file
ShipOpen ==
  /\ ship.pc = "load"
  /\ stateFile.kind = "bytes"
  /\ ship' = [ship EXCEPT !.pc = "read", !.state = OnDisk(<<>>)]
  /\ UNCHANGED <<tree, stateFile, aiResultFile, verify, review, shipOut>>

\* loadVerifyState, line 74: fs.readFileSync reads on from where it is, as
\* long as the file has bytes there
ShipReadBytes ==
  /\ ship.pc = "read"
  /\ Len(ship.state.text) < Len(stateFile.text)
  /\ ship' = [ship EXCEPT
                !.state = OnDisk(Append(@.text, stateFile.text[Len(@.text) + 1]))]
  /\ UNCHANGED <<tree, stateFile, aiResultFile, verify, review, shipOut>>

\* loadVerifyState, lines 73-78, and main, lines 220-236: at the end of
\* the file what was read is parsed; a record is loaded, anything else
\* ends the run
ShipParse ==
  /\ ship.pc = "read"
  /\ Len(ship.state.text) >= Len(stateFile.text)
  /\ LET state == parseRecord(ship.state.text)
     IN  IF state.kind # "json"
           THEN /\ ship' = [ship EXCEPT !.pc = "done", !.state = NoFile, !.exit = "1"]
                /\ shipOut' = Append(shipOut,
                                Event("ERROR: Failed to parse verification state"))
           ELSE \E hoursSinceVerify \in 0..MaxAgeHours :
                  /\ ship' = [ship EXCEPT !.pc = "gates", !.state = state,
                                          !.hoursSinceVerify = hoursSinceVerify,
                                          !.phases = Append(@, "Loaded")]
                  /\ shipOut' = IF hoursSinceVerify > StaleHours
                                  THEN Append(shipOut, Event("WARNING: Verification is old"))
                                  ELSE shipOut
  /\ UNCHANGED <<tree, stateFile, aiResultFile, verify, review>>

NextOverlap ==
  \/ VerifyTruncate
  \/ VerifyWriteBytes
  \/ VerifyExit
  \/ ShipStartOverlapping
  \/ ShipNotFound
  \/ ShipOpen
  \/ ShipReadBytes
  \/ ShipParse
  \/ ShipCheckGates
  \/ ShipVerifyIntegrity
  \/ ShipModified
  \/ ShipMissing
  \/ ShipReady
  \/ ShipPreparePR
  \/ ShipCreatePR

SpecOverlap == InitOverlap /\ [][NextOverlap]_vars

(***************************************************************************)
(* Properties                                                              *)
(***************************************************************************)
Printed(ev) == \E i \in 1..Len(shipOut) : shipOut[i].ev = ev

ReleaseEvents ==
  {"Preparing pull request...", "ERROR: cannot create PR",
   "[DRY RUN] Would execute: gh pr create", "gh pr create"}

Ready == "ALL CHECKS PASSED - READY TO SHIP"

GateFlags == {"overallPass", "testsPass", "lintPass", "auditPass"}

\* the record that the ship run loaded has every gate flag true
RecordGatesPass == \A flag \in GateFlags : Get(ship.state.summary, flag) = "true"

RecordLoaded == ship.pc # "idle" /\ ship.state.kind = "json"

\* how a path of the loaded snapshot stands in the tree now
Intact(p) == tree[p] \in Contents /\ sha256(tree[p]) = ship.state.hashes[p]
ContentChanged(p) == tree[p] \in Contents /\ sha256(tree[p]) # ship.state.hashes[p]
Gone(p) == tree[p] = "ENOENT"

First8(hash) == [i \in 1..8 |-> hash[i]]

ReportedModified(p) ==
  \E i \in 1..Len(shipOut) :
    shipOut[i] = [ev |-> "modified", file |-> p,
                  expected |-> First8(ship.state.hashes[p]) \o <<"...">>,
                  actual |-> First8(sha256(tree[p])) \o <<"...">>]

ReportedMissing(p) ==
  \E i \in 1..Len(shipOut) : shipOut[i].ev = "missing" /\ shipOut[i].file = p

\* C1: a ship run whose loaded record has a gate flag that is not true, or
\* whose snapshot has a path that no longer hashes to the recorded digest
\* (edited, deleted or unreadable), never enters createPullRequest: nothing
\* of the release step is printed, with or without --create-pr and
\* --dry-run, and the run ends with exit code 1.
C1_DeniedRunReleasesNothing ==
  (RecordLoaded /\ (~RecordGatesPass \/ \E p \in DOMAIN ship.state.hashes : ~Intact(p)))
    => /\ ship.pc # "pr"
       /\ \A ev \in ReleaseEvents : ~Printed(ev)
       /\ ship.pc = "done" => ship.exit = "1"

C1_Witness ==
  /\ ship.pc = "done"
  /\ ship.state.kind = "json"
  /\ ship.options.createPR /\ ship.options.dryRun
  /\ RecordGatesPass
  /\ Len(ship.integrityResults.missing) > 0
  /\ ship.exit = "1"

\* the gate results in the record on disk
GatePassed(g) == Get(stateFile[g], "success") = "true"
GateSkipped(g) == Get(stateFile[g], "skipped") = "true"
GateFailed(g) == ~GatePassed(g) /\ ~GateSkipped(g)

\* the record carries a review tier outside the acceptable sets
UnacceptableTier ==
  \/ Get(stateFile.aiReview, "securityRisk") \in RiskTiers \ {"LOW", "MEDIUM"}
  \/ Get(stateFile.aiReview, "codeQuality") \in
       QualityTiers \ {"EXCELLENT", "GOOD", "ACCEPTABLE"}

CallFailed ==
  /\ aiResultFile.kind = "json"
  /\ \/ aiResultFile.securityReview.error # "undefined"
     \/ /\ aiResultFile.qualityReview # NullObj
        /\ aiResultFile.qualityReview.error # "undefined"

\* C3: when the review ran (not opted out, credential present) and a call
\* to the reviewer failed outright, the review result has passesReview
\* false, the record's aiReviewPass and overallPass are not true, and the
\* ship run that follows is denied.
C3_FailedCallFailsReview ==
  (ship.pc = "done" /\ ship.state.kind = "json" /\ CallFailed)
    => /\ aiResultFile.summary.passesReview = "false"
       /\ Get(ship.state.summary, "aiReviewPass") # "true"
       /\ Get(ship.state.summary, "overallPass") # "true"
       /\ ~Printed(Ready)
       /\ ship.exit = "1"

\* a ship run that loaded a record has come to its decision
Decided == ship.pc \in {"pr", "done"} /\ ship.state.kind = "json"

\* C4: a ship run that loaded a record prints ALL CHECKS PASSED - READY TO
\* SHIP exactly when the record's overallPass is true and every path of the
\* snapshot still hashes to its recorded digest; every other such run ends
\* denied with exit code 1; and no phase of the run is taken twice.
C4_ReadyIffPassedAndIntact ==
  Decided =>
    /\ Printed(Ready)
         <=> /\ Get(ship.state.summary, "overallPass") = "true"
             /\ \A p \in DOMAIN ship.state.hashes : Intact(p)
    /\ ~Printed(Ready) => ship.pc = "done" /\ ship.exit = "1"
    /\ \A i, j \in 1..Len(ship.phases) : i # j => ship.phases[i] # ship.phases[j]

C4_Witness ==
  /\ ship.pc = "done"
  /\ ship.state.kind = "json"
  /\ DOMAIN ship.state.hashes = Paths
  /\ Printed(Ready)
  /\ ship.exit = "0"

\* C5 as stated: at the end of a ship run, every snapshot path whose file
\* still exists with a different digest has been reported as modified, with
\* the first eight characters of the expected and of the actual digest, and
\* the run is denied.
C5_EveryChangedPathReported ==
  (ship.pc = "done" /\ ship.state.kind = "json") =>
    \A p \in DOMAIN ship.state.hashes :
      ContentChanged(p) => ReportedModified(p) /\ ship.exit = "1"

\* C5 amended: at the end of a ship run, a snapshot path whose file still
\* exists with a different digest makes the run end denied; it has been
\* reported as modified, with the first eight characters of the expected
\* and of the actual digest, when the record's gates all passed, and not
\* when a gate failed (the run ends before any file is hashed).
C5_ChangedPathReportedAfterGates ==
  (ship.pc = "done" /\ ship.state.kind = "json") =>
    \A p \in DOMAIN ship.state.hashes :
      ContentChanged(p) => /\ ship.exit = "1"
                           /\ ReportedModified(p) <=> RecordGatesPass

C5_Witness ==
  /\ ship.pc = "done"
  /\ ship.state.kind = "json"
  /\ RecordGatesPass
  /\ \E p \in DOMAIN ship.state.hashes : ContentChanged(p) /\ ReportedModified(p)
  /\ ship.exit = "1"

\* C6, for the runs whose record has every gate passed: at the end of a
\* ship run, every snapshot path whose file no longer exists has been
\* reported as missing, and the run is denied.
C6_EveryGonePathReported ==
  (ship.pc = "done" /\ ship.state.kind = "json" /\ RecordGatesPass) =>
    \A p \in DOMAIN ship.state.hashes :
      Gone(p) => ReportedMissing(p) /\ ship.exit = "1"

\* C7 as stated: every ship run that loads a record goes through Loaded,
\* Integrity-Checked and Decided, in that order.
C7_EveryRunHashesBeforeDeciding ==
  Decided => ship.phases = <<"Loaded", "Integrity-Checked", "Decided">>

\* C7 amended: a ship run that loads a record whose gates all passed goes
\* through Loaded, Integrity-Checked and Decided in that order, and every
\* path of the snapshot has been re-hashed and classified before the
\* decision; a run whose record has a failed gate goes from Loaded to
\* Decided, denied, with no path re-hashed.
C7_RunHashesBeforeDecidingAfterGates ==
  Decided =>
    IF RecordGatesPass
      THEN /\ ship.phases = <<"Loaded", "Integrity-Checked", "Decided">>
           /\ ship.integrityResults.total = Cardinality(DOMAIN ship.state.hashes)
           /\ ship.integrityResults.verified + Len(ship.integrityResults.modified)
                + Len(ship.integrityResults.missing) = ship.integrityResults.total
           /\ ship.integrityResults.verified =
                Cardinality({p \in DOMAIN ship.state.hashes : Intact(p)})
      ELSE /\ ship.phases = <<"Loaded", "Decided">>
           /\ ship.integrityResults = NoResults
           /\ ship.pc = "done" /\ ship.exit = "1"

C7_Witness ==
  /\ ship.pc = "done"
  /\ ship.state.kind = "json"
  /\ RecordGatesPass
  /\ ship.phases = <<"Loaded", "Integrity-Checked", "Decided">>
  /\ ship.integrityResults.total = 2
  /\ Len(ship.integrityResults.missing) = 1
  /\ ship.integrityResults.verified = 1
  /\ ship.exit = "1"

\* C8: a ship run denied for an integrity violation has named every path
\* it classified as modified and every path it classified as missing, also
\* when both kinds occur in the same run.
C8_DiagnosticNamesEveryPath ==
  (ship.pc = "done" /\ ship.state.kind = "json" /\ RecordGatesPass) =>
    /\ \A i \in 1..Len(ship.integrityResults.modified) :
         \E k \in 1..Len(shipOut) :
           shipOut[k] = ModifiedEvent(ship.integrityResults.modified[i])
    /\ \A i \in 1..Len(ship.integrityResults.missing) :
         \E k \in 1..Len(shipOut) :
           shipOut[k] = MissingEvent(ship.integrityResults.missing[i])

\* C9: a ship run that finds the record absent or unparsable ends at once
\* with the error message and exit code 1: it loads nothing, checks no
\* gate, hashes no file, announces no readiness and prints nothing of the
\* release step, dry-run echo included.
C9_NoRecordFailsAtOnce ==
  (ship.pc # "idle" /\ stateFile.kind # "json") =>
    /\ ship.pc \in {"load", "done"}
    /\ ship.state = NoFile
    /\ ship.gates = NoGates
    /\ ship.integrityResults = NoResults
    /\ ship.phases = <<>>
    /\ ~Printed(Ready)
    /\ \A ev \in ReleaseEvents : ~Printed(ev)
    /\ ship.pc = "done" =>
         /\ ship.exit = "1"
         /\ shipOut \in {<<Event("ERROR: Verification state not found")>>,
                         <<Event("ERROR: Failed to parse verification state")>>}

C9_Witness ==
  /\ ship.pc = "done"
  /\ stateFile = CorruptFile
  /\ ship.options.createPR /\ ship.options.dryRun
  /\ shipOut = <<Event("ERROR: Failed to parse verification state")>>
  /\ ship.exit = "1"

\* C10: every verify run has written the record when it exits, whatever the
\* outcomes of the gates: the exit code is set only after the write, the
\* record on disk is the state the run built, and a run that exits with 1
\* leaves a record whose overallPass is not true and that shows a gate
\* flag that is not true, each failed gate having its flag not true.
C10_RecordWrittenBeforeExit ==
  /\ verify.pc \notin {"exit", "done"} => verify.exit = "-"
  /\ verify.pc \in {"exit", "done"} => stateFile.kind = "json"
  /\ verify.pc = "exit" =>
       stateFile = RecordOf(VerifyState(verify.fileHashes, verify.testResults,
                                        verify.lintResults, verify.auditResults,
                                        verify.aiReviewResults))
  /\ verify.pc = "done" =>
       /\ verify.exit = "1" <=> Get(stateFile.summary, "overallPass") # "true"
       /\ verify.exit = "1" =>
            \E flag \in {"testsPass", "lintPass", "auditPass", "aiReviewPass"} :
              Get(stateFile.summary, flag) # "true"
       /\ GateFailed("tests") => Get(stateFile.summary, "testsPass") # "true"
       /\ GateFailed("lint") => Get(stateFile.summary, "lintPass") # "true"
       /\ GateFailed("audit") => Get(stateFile.summary, "auditPass") # "true"
       /\ GateFailed("aiReview") => Get(stateFile.summary, "aiReviewPass") # "true"

C10_Witness ==
  /\ verify.pc = "done"
  /\ verify.exit = "1"
  /\ stateFile.kind = "json"
  /\ GateFailed("tests") /\ GateFailed("lint") /\ GateFailed("audit")
  /\ GateFailed("aiReview")
  /\ Get(stateFile.summary, "overallPass") # "true"

Gates == {"tests", "lint", "audit", "aiReview"}

\* the record on disk holds a result value for the gate
HasResult(g) ==
  Get(stateFile[g], "success") \in {"true", "false"} \/ GateSkipped(g)

\* C11: in a verify run every gate function returns a result value and
\* the next step is taken, however the gate's command or the review
\* subprocess ended; when the run has written the record, the record holds
\* a result for each of the four gates, and a gate whose command ended
\* with a non-zero exit status, was killed or could not be spawned, or whose
\* result file does not parse, is recorded as failed with overallPass not
\* true.
C11_GateFailuresAreCaptured ==
  /\ verify.pc \in {"lint", "audit", "aiReview", "waitReview", "write", "exit"}
       => verify.testResults # NotRun
  /\ verify.pc \in {"audit", "aiReview", "waitReview", "write", "exit"}
       => verify.lintResults # NotRun
  /\ verify.pc \in {"aiReview", "waitReview", "write", "exit"}
       => verify.auditResults # NotRun
  /\ verify.pc \in {"write", "exit"} => verify.aiReviewResults # AiNotRun
  /\ verify.pc = "exit" =>
       /\ stateFile.kind = "json"
       /\ \A g \in Gates : HasResult(g)
       /\ \A g \in Gates :
            verify.ended[g] \in {"nonzero", "killed"}
              => GateFailed(g) /\ Get(stateFile.summary, "overallPass") # "true"
       /\ (verify.ended.aiReview # "-" /\ aiResultFile.kind = "corrupt")
              => GateFailed("aiReview") /\ Get(stateFile.summary, "overallPass") # "true"

\* C12: when a verify run has written the record, each of the tests, lint
\* and audit gates whose command ended with a non-zero exit status is
\* recorded as failed and its summary flag is not true.
C12_NonZeroExitFailsGate ==
  verify.pc = "exit" =>
    /\ verify.ended.tests = "nonzero"
         => GateFailed("tests") /\ Get(stateFile.summary, "testsPass") # "true"
    /\ verify.ended.lint = "nonzero"
         => GateFailed("lint") /\ Get(stateFile.summary, "lintPass") # "true"
    /\ verify.ended.audit = "nonzero"
         => GateFailed("audit") /\ Get(stateFile.summary, "auditPass") # "true"

\* the gate's record says it was skipped, for the given reason, its command
\* was not invoked, and its summary flag is true
SkippedFor(g, flag, reason) ==
  /\ verify.ended[g] = "-"
  /\ GateSkipped(g)
  /\ Get(stateFile[g], "reason") = reason
  /\ Get(stateFile.summary, flag) = "true"

\* C13: when a verify run has written the record, a gate that was opted
\* out by its skip flag, or that found no package.json, no script of its
\* own in package.json, no GEMINI_API_KEY or no review script, has not
\* invoked its command and is recorded as skipped, with the reason when the
\* capability was absent; every gate has its result in the record; the
\* skipped gate's summary flag is true, and overallPass is true exactly
\* when every gate passed or was skipped.
C13_AbsentCapabilitySkipsGate ==
  verify.pc = "exit" =>
    /\ stateFile.kind = "json"
    /\ \A g \in Gates : HasResult(g)
    /\ verify.options.skipTests => SkippedFor("tests", "testsPass", "undefined")
    /\ verify.capability.tests = "missing"
         => SkippedFor("tests", "testsPass", "no package.json")
    /\ verify.capability.tests = "no script"
         => SkippedFor("tests", "testsPass", "no test script")
    /\ verify.options.skipLint => SkippedFor("lint", "lintPass", "undefined")
    /\ verify.capability.lint = "missing"
         => SkippedFor("lint", "lintPass", "no package.json")
    /\ verify.capability.lint = "no script"
         => SkippedFor("lint", "lintPass", "no lint script")
    /\ verify.options.skipAiReview
         => SkippedFor("aiReview", "aiReviewPass", "undefined")
    /\ verify.capability.aiReview = "no key"
         => SkippedFor("aiReview", "aiReviewPass", "no API key")
    /\ verify.capability.aiReview = "no script"
         => SkippedFor("aiReview", "aiReviewPass", "script not found")
    /\ Get(stateFile.summary, "overallPass") = "true"
         <=> \A g \in Gates : GatePassed(g) \/ GateSkipped(g)

C13_Witness ==
  /\ verify.pc = "exit"
  /\ verify.capability.tests = "missing"
  /\ verify.capability.lint = "no script"
  /\ verify.capability.aiReview = "no key"
  /\ GateSkipped("tests") /\ GateSkipped("lint") /\ GateSkipped("aiReview")
  /\ GatePassed("audit")
  /\ Get(stateFile.summary, "overallPass") = "true"

\* C14, for the runs whose review wrote its result file: when a verify run
\* has written a record with overallPass true whose AI review was not
\* skipped, the recorded security risk is LOW or MEDIUM
\* and, unless the review was security-focused, the recorded code quality
\* is EXCELLENT, GOOD or ACCEPTABLE; and a review recorded with a security
\* risk that is none of the four tiers is not recorded as passed.
C14_PassingReviewHasAcceptableTiers ==
  (verify.pc = "exit" /\ ~GateSkipped("aiReview") /\ aiResultFile.kind = "json") =>
    /\ Get(stateFile.summary, "overallPass") = "true" =>
         /\ Get(stateFile.aiReview, "securityRisk") \in {"LOW", "MEDIUM"}
         /\ ~verify.options.securityFocus =>
              Get(stateFile.aiReview, "codeQuality") \in
                {"EXCELLENT", "GOOD", "ACCEPTABLE"}
    /\ Get(stateFile.aiReview, "securityRisk") \notin RiskTiers
         => ~GatePassed("aiReview")

\* the gates of the verify run that have returned, in the order of main
GatesReturned ==
  SelectSeq(<<"tests", "lint", "audit", "aiReview">>,
            LAMBDA g : CASE g = "tests" -> verify.testResults # NotRun
                         [] g = "lint" -> verify.lintResults # NotRun
                         [] g = "audit" -> verify.auditResults # NotRun
                         [] g = "aiReview" -> verify.aiReviewResults # AiNotRun)

\* C15: in a verify run the snapshot is taken before any gate, the gates
\* return in the order tests, lint, audit, AI review, each one starting
\* only when the one before has returned; the review subprocess runs only
\* while verify waits for it, after the audit gate; in it the security
\* request comes first and the quality request follows only when the review
\* is not security-focused.
C15_StepsInOrder ==
  /\ verify.pc = "snapshot" => verify.fileHashes = NoHashes /\ GatesReturned = <<>>
  /\ verify.pc = "tests" => verify.fileHashes = fileHashes(tree) /\ GatesReturned = <<>>
  /\ verify.pc = "lint" => GatesReturned = <<"tests">>
  /\ verify.pc = "audit" => GatesReturned = <<"tests", "lint">>
  /\ verify.pc \in {"aiReview", "waitReview"}
       => GatesReturned = <<"tests", "lint", "audit">>
  /\ verify.pc \in {"write", "exit"}
       => GatesReturned = <<"tests", "lint", "audit", "aiReview">>
  /\ review.pc # "idle" =>
       /\ verify.pc = "waitReview"
       /\ review.securityFocus = verify.options.securityFocus
  /\ review.pc \in {"start", "security"} => review.requests = <<>>
  /\ review.pc = "quality"
       => review.requests = <<"security">> /\ ~review.securityFocus
  /\ review.pc = "finish"
       => review.requests = IF review.securityFocus THEN <<"security">>
                            ELSE <<"security", "quality">>

C15_Witness ==
  /\ verify.pc = "waitReview"
  /\ review.pc = "finish"
  /\ review.requests = <<"security", "quality">>
  /\ GatesReturned = <<"tests", "lint", "audit">>
  /\ verify.fileHashes # NoHashes

\* the number of requests the review has sent for a prompt type
Sent(prompt) ==
  Cardinality({i \in 1..Len(review.requests) : review.requests[i] = prompt})

\* C19: a review run never sends more than one request per prompt type;
\* once the security review is over exactly one security request has been
\* sent, and once the review stage is over exactly one quality request has
\* been sent, or none when the review is security-focused, whether the
\* security request succeeded or failed; a run with no code to review
\* sends none.
C19_OneRequestPerPrompt ==
  /\ Sent("security") <= 1 /\ Sent("quality") <= 1
  /\ Sent("security") + Sent("quality") = Len(review.requests)
  /\ review.pc \in {"quality", "finish"} => Sent("security") = 1
  /\ review.pc = "quality" => ~review.securityFocus
  /\ review.pc = "finish" =>
       Sent("quality") = IF review.securityFocus THEN 0 ELSE 1
  /\ review.pc = "exited" =>
       \/ review.requests = <<>>
       \/ /\ Sent("security") = 1
          /\ Sent("quality") = IF review.securityFocus THEN 0 ELSE 1

C19_Witness ==
  /\ review.pc = "finish"
  /\ ~review.securityFocus
  /\ review.securityReview.error = "Timeout"
  /\ review.qualityReview.error = "TransportError"
  /\ review.requests = <<"security", "quality">>

\* C16: the parser returns the result of the first of the strategies 1, 2,
\* 3, in that order, that parses; a reply that is a structured document is
\* parsed by strategy 1; the same document in a fenced block, with or
\* without the language tag, is parsed by strategy 2, to the same result
\* that strategy 1 gives for the bare document.
C16_StrategiesInOrder ==
  review.pc = "parsed" =>
    LET r == review.response
    IN  /\ ~strategy1(r).threw
             => review.parsed = Verdict(strategy1(r).value, <<>>, "undefined")
        /\ (strategy1(r).threw /\ ~strategy2(r).threw)
             => review.parsed = Verdict(strategy2(r).value, <<>>, "undefined")
        /\ (strategy1(r).threw /\ strategy2(r).threw /\ ~strategy3(r).threw)
             => review.parsed = Verdict(strategy3(r).value, <<>>, "undefined")
        /\ r \in Documents
             => ~strategy1(r).threw /\ review.parsed.document = documentOf(r, 1, FALSE)
        /\ \A d \in Documents, tag \in BOOLEAN :
             r = Fenced(d, tag)
               => /\ strategy1(r).threw
                  /\ ~strategy2(r).threw
                  /\ review.parsed = Verdict(strategy1(d).value, <<>>, "undefined")

C16_Witness ==
  /\ review.pc = "parsed"
  /\ \E d \in Documents :
       /\ review.response = <<"{", Quote, "b", Quote, ":", "1", "}", "\n">>
                              \o Fenced(d, FALSE)
       /\ ~strategy3(review.response).threw
       /\ strategy3(review.response).value # strategy1(d).value
       /\ review.parsed.document = strategy1(d).value

\* C17: a structured document embedded in prose, with no fence, is
\* recovered whole by strategy 3: the result is the one strategy 1 gives
\* for the bare document, for nested objects and for string values that
\* hold brace characters.
C17_BracesRecoverPayload ==
  review.pc = "parsed" =>
    \A d \in Documents :
      review.response = InProse(d)
        => review.parsed = Verdict(strategy1(d).value, <<>>, "undefined")

FailureKind(message) ==
  CASE message = "Gemini API request timed out after 30 seconds" -> "Timeout"
    [] message = "Request failed" -> "TransportError"
    [] message \in {"Gemini API error", "Unexpected response format from Gemini",
                    "Failed to parse Gemini response"} -> "ApiError"
    [] OTHER -> "none"

\* C20: a call is settled from the first of the response-end, error and
\* timeout handlers that runs and stays as that handler left it: a
\* response end gives the text or an ApiError, an error gives a
\* TransportError, a timeout gives a Timeout, also when the error of the
\* destroyed request follows; the caller receives that outcome.
C20_CallSettlesOnce ==
  LET call == review.call
  IN  /\ call.state = "pending" <=> call.ran = <<>>
      /\ call.state = "resolved" =>
           /\ call.ran[1] = "end"
           /\ call.message = "undefined"
      /\ call.state = "rejected" =>
           /\ call.text = <<>>
           /\ FailureKind(call.message) =
                CASE call.ran[1] = "timeout" -> "Timeout"
                  [] call.ran[1] = "error" -> "TransportError"
                  [] call.ran[1] = "end" -> "ApiError"
      /\ call.destroyed => Ran(call, "timeout")
      /\ review.pc \in {"received", "parsed"} =>
           call.state = "resolved" /\ review.response = call.text
      /\ review.pc = "failed" =>
           call.state = "rejected" /\ review.error = call.message

C20_Witness ==
  /\ review.pc = "failed"
  /\ review.call.ran = <<"timeout", "error">>
  /\ review.call.destroyed
  /\ FailureKind(review.error) = "Timeout"

\* C21: a call does not stay pending for ever: with the clock running,
\* every call is settled, with the text or with a failure, whatever the
\* remote endpoint sends or does not send.
C21_CallNeverBlocks == <>(review.call.state # "pending")

\* the section the context must hold for a file with this content
SectionOf(p, content) ==
  <<"### ", p, "\n\n", Fence, "js", "\n">>
  \o (IF Len(content) <= MAX_FILE_SIZE
        THEN content
        ELSE SubSeq(content, 1, MAX_FILE_SIZE) \o <<Marker>>)
  \o <<"\n", Fence, "\n\n">>

Occurs(part, whole) ==
  \E i \in 0..(Len(whole) - Len(part)) :
    SubSeq(whole, i + 1, i + Len(part)) = part

ContextBuilt == review.pc \in {"no code", "reviewing"}

\* C22: once the context is built, every selected file that could be read
\* has its section in it, holding the whole content when that is within
\* MAX_FILE_SIZE and the first MAX_FILE_SIZE characters followed by the
\* truncation marker otherwise.
C22_ContextHoldsEveryFileWithinBound ==
  ContextBuilt =>
    \A i \in 1..Len(review.filesToReview) :
      LET p == review.filesToReview[i]
      IN  tree[p].kind = "text" =>
            Occurs(SectionOf(p, tree[p].content), review.codeContext)

C22_Witness ==
  /\ review.pc = "reviewing"
  /\ Len(review.filesToReview) = 2
  /\ tree["src/a.js"].kind = "text"
  /\ Len(tree["src/a.js"].content) > MAX_FILE_SIZE
  /\ tree["src/b.js"].kind = "text"
  /\ Len(tree["src/b.js"].content) = MAX_FILE_SIZE

\* C23: a ship run leaves the record and the tracked files as it found
\* them, and a run that finds the record and the tree that the run before
\* it found decides as that run did: allow or deny, with the same modified
\* and missing lists.
C23_ShipTwiceDecidesTheSame ==
  /\ ship.pc # "idle" => Found(tree, stateFile) = ship.began
  /\ (ship.pc = "done" /\ ship.earlier.ran /\ ship.earlier.began = ship.began)
       => Outcome(ship, shipOut) = ship.earlier.outcome

C23_Witness ==
  /\ ship.pc = "done"
  /\ ship.earlier.ran
  /\ ship.earlier.began = ship.began
  /\ Len(ship.earlier.outcome.modified) > 0
  /\ Outcome(ship, shipOut) = ship.earlier.outcome

SummaryFlags == {"testsPass", "lintPass", "auditPass", "aiReviewPass", "overallPass"}

\* the verification states a verify run can build
WrittenStates ==
  {VerifyState(fileHashes(fs), t, l, a, ai) :
     fs \in VerifiedTrees, t \in TestsCases, l \in LintCases,
     a \in AuditCases, ai \in AiReviewCases}

\* C24: the record a ship run loaded has the path-to-digest mapping of the
\* verification state it was written from, and each of the five summary
\* flags is in it with the value verify gave it, whatever the gates did.
C24_RecordRoundTrip ==
  \A written \in WrittenStates :
    ship.state = RecordOf(written) =>
      /\ ship.state.hashes = written.hashes
      /\ \A flag \in SummaryFlags :
           /\ flag \in DOMAIN ship.state.summary
           /\ ship.state.summary[flag] = written.summary[flag]

\* the run has re-hashed the snapshot
IntegrityChecked ==
  \E i \in 1..Len(ship.phases) : ship.phases[i] = "Integrity-Checked"

InModified(p) ==
  \E i \in 1..Len(ship.integrityResults.modified) :
    ship.integrityResults.modified[i].file = p

InMissing(p) ==
  \E i \in 1..Len(ship.integrityResults.missing) :
    ship.integrityResults.missing[i] = p

\* the content of p that verify hashed is c
VerifiedWith(p, c) == sha256(c) = ship.state.hashes[p]

\* C25: when ship has re-hashed the snapshot, a path whose file holds the
\* content verify hashed is in neither list, a path whose file holds other
\* content is in the modified list, and with every file unchanged every
\* path of the snapshot counts as verified.
C25_SameBytesSameDigest ==
  IntegrityChecked =>
    /\ \A p \in DOMAIN ship.state.hashes, c \in Contents :
         VerifiedWith(p, c) =>
           /\ tree[p] = c => ~InModified(p) /\ ~InMissing(p)
           /\ tree[p] \in Contents \ {c} => InModified(p)
    /\ (\A p \in DOMAIN ship.state.hashes :
          tree[p] \in Contents /\ VerifiedWith(p, tree[p]))
         => ship.integrityResults.verified = ship.integrityResults.total

C25_Witness ==
  /\ IntegrityChecked
  /\ DOMAIN ship.state.hashes = Paths
  /\ VerifiedWith("src/a.js", tree["src/a.js"])
  /\ ship.integrityResults.verified = 1
  /\ tree["src/b.js"] = "v2"
  /\ InModified("src/b.js")

Warned == Printed("WARNING: Verification is old")

\* C26: a run that loaded a record has printed the staleness warning
\* exactly when the record is more than StaleHours old; a run that found
\* the record and the tree of the run before it, one of the two with the
\* warning and one without, decides as that run did; and without a release
\* action the exit code is 0 exactly for allow.
C26_StalenessOnlyWarns ==
  /\ ship.pc \in {"gates", "integrity", "decide", "pr"} =>
       (Warned <=> ship.hoursSinceVerify > StaleHours)
  /\ (/\ ship.pc = "done"
      /\ ship.earlier.ran
      /\ ship.earlier.began = ship.began
      /\ ship.earlier.warned # Warned)
       => Outcome(ship, shipOut) = ship.earlier.outcome
  /\ (ship.pc = "done" /\ ship.state.kind = "json" /\ ~Printed("Preparing pull request..."))
       => (ship.exit = "0" <=> Printed(Ready))

C26_Witness ==
  /\ ship.pc = "done"
  /\ ship.earlier.ran
  /\ ship.earlier.began = ship.began
  /\ ~ship.earlier.warned
  /\ Warned
  /\ ship.earlier.outcome.allow
  /\ Printed(Ready)
  /\ ship.exit = "0"

Executed == Printed("gh pr create")

\* C27: the step that executes gh pr create is taken only by a run that
\* was asked for a pull request, is no dry run, has printed ALL CHECKS
\* PASSED - READY TO SHIP, knows its branch, found it different from the
\* default branch and found the gh CLI; and a dry run has never executed
\* the command.
C27_ReleaseOnlyWhenPrepared ==
  /\ [][(~Executed /\ Executed') =>
          /\ ship.options.createPR
          /\ ~ship.options.dryRun
          /\ Printed(Ready)
          /\ ship.pr.checked
          /\ ship.pr.branch # "null"
          /\ ship.pr.branch # ship.pr.defaultBranch
          /\ ship.pr.ghCheck]_vars
  /\ [](ship.options.dryRun => ~Executed)

C27_Witness ==
  /\ ship.pc = "done"
  /\ Executed
  /\ Printed(Ready)
  /\ ship.options.createPR
  /\ ~ship.options.dryRun
  /\ ship.exit = "0"

\* the release action the run was asked for has succeeded
ReleaseSucceeded ==
  \/ Printed("Pull request created successfully!")
  \/ Printed("[DRY RUN] Would execute: gh pr create")

\* C28: a verify run that has ended has exit code 0 exactly when the
\* record it wrote has overallPass true; a review run that has exited has
\* exit code 0 exactly when it found no code or wrote passesReview true; a
\* ship run that has ended has exit code 0 exactly when it printed ALL
\* CHECKS PASSED - READY TO SHIP and, if a pull request was asked for, the
\* release action succeeded.
C28_ExitCodesMirrorOutcome ==
  /\ (verify.pc = "done" /\ stateFile.kind = "json") =>
       (verify.exit = "0" <=> Get(stateFile.summary, "overallPass") = "true")
  /\ review.pc = "exited" =>
       (review.exit = "0" <=>
          \/ review.requests = <<>>
          \/ aiResultFile.kind = "json" /\ aiResultFile.summary.passesReview = "true")
  /\ ship.pc = "done" =>
       (ship.exit = "0" <=>
          Printed(Ready) /\ (ship.options.createPR => ReleaseSucceeded))

\* C29: a ship run started with --state <path> that goes past the load has
\* loaded the file at <path>, and a run that finds a record there goes
\* past the load.
C29_StateOptionSelectsRecord ==
  (ship.pc # "idle" /\ Len(ship.args) = 2 /\ ship.args[1] = "--state") =>
    LET given == FileAt(ship.args[2])
    IN  /\ ship.state.kind = "json" => ship.state = given
        /\ (ship.pc = "done" /\ given.kind = "json") => ship.state = given

\* the review subprocess of this run has written its result
ReviewWrote == review.pc = "exited" /\ review.requests # <<>>

\* C30: when runAiReview returns, the result it gives is the one read from
\* what the review subprocess of this run wrote: from its result file when
\* it wrote one, and as from no file when it was killed or exited without
\* writing.
C30_ReviewResultIsOfThisRun ==
  [][(verify.pc = "waitReview" /\ verify'.pc = "write") =>
       verify'.aiReviewResults =
         collectAiReview(review.pc = "exited" /\ review.exit = "0",
                         IF ReviewWrote THEN aiResultFile ELSE NoFile)]_vars

\* the security review of the run gave the raw fallback of the parser
RawReview ==
  /\ aiResultFile.kind = "json"
  /\ aiResultFile.securityReview.raw = "true"

\* the aiReview entry that verify records for a review whose security call
\* failed in the way f, the quality review being as in this run
RecordedForFailure(f) ==
  LET failed == ReviewObj(f, "undefined", "undefined")
      quality == aiResultFile.qualityReview
  IN  JSONstringify(collectAiReview(passesReview(failed, quality),
                                    ReviewResults(failed, quality)))

\* C31: a review that only the raw fallback could parse is not counted as a
\* passing review (passesReview and the record's aiReviewPass are not
\* true), and what the review result and the record keep of it differs
\* from what they keep of a review whose call failed.
C31_RawReviewIsInconclusive ==
  (stateFile.kind = "json" /\ RawReview) =>
    /\ aiResultFile.summary.passesReview # "true"
    /\ Get(stateFile.summary, "aiReviewPass") # "true"
    /\ \A f \in CallFailures :
         /\ aiResultFile.securityReview # ReviewObj(f, "undefined", "undefined")
         /\ stateFile.aiReview # RecordedForFailure(f)

\* the audit command of this run has returned
Audited == verify.pc \in {"aiReview", "waitReview", "write", "exit"}

\* the audit command exited with status 0, or its output holds neither
\* high nor critical
AuditClean ==
  verify.ended.audit = "0" \/ verify.auditOutput \cap {"high", "critical"} = {}

\* C32: the audit gate is recorded as passed exactly when the audit command
\* exited with status 0 or its output contains neither high nor critical;
\* so a command that exits non-zero with no such word in its output gives
\* auditPass true in the record.
C32_AuditPassesUnlessSevereAndFailed ==
  /\ Audited => (verify.auditResults.success = "true" <=> AuditClean)
  /\ verify.pc = "exit" =>
       (Get(stateFile.summary, "auditPass") = "true" <=> AuditClean)

C32_Witness ==
  /\ verify.pc = "exit"
  /\ verify.ended.audit = "nonzero"
  /\ verify.auditOutput = {}
  /\ Get(stateFile.summary, "auditPass") = "true"

\* the record that the ship run loaded is one that a verify run wrote: its
\* two parts are of the same write
LoadedComplete == ship.state.from[1] = ship.state.from[2]

\* C33: a ship run that overlaps the write of the record loads a complete
\* record, the old one or the new one, or fails to load and denies; it
\* never prints READY TO SHIP on a record that no verify run wrote.
C33_ShipNeverReadsPartialRecord ==
  /\ (ship.pc \in {"gates", "integrity", "decide", "pr"}) => LoadedComplete
  /\ (Printed(Ready) /\ ship.state.kind = "json") => LoadedComplete

\* the trees that hold what this tree holds at the paths of the loaded
\* snapshot, and anything at the other paths
SameAtSnapshot ==
  {t \in [Paths -> FileStates] : \A p \in DOMAIN ship.state.hashes : t[p] = tree[p]}

\* a tracked file that the loaded snapshot does not list
Unverified(p) == p \notin DOMAIN ship.state.hashes /\ tree[p] \in Contents

\* C34: the integrity check of ship covers the paths of the snapshot and no
\* other: its result is the same whatever the tree holds at other paths,
\* it lists no other path, and a run whose record passes the gates and
\* whose snapshot paths all match is allowed, extra files or not.
C34_IntegrityCoversSnapshotOnly ==
  (IntegrityChecked /\ ship.state.kind = "json") =>
    /\ \A t \in SameAtSnapshot :
         verifyFileIntegrity(t, ship.state) = ship.integrityResults
    /\ \A p \in Paths : (InModified(p) \/ InMissing(p)) => p \in DOMAIN ship.state.hashes
    /\ ship.integrityResults.total = Cardinality(DOMAIN ship.state.hashes)
    /\ (Decided /\ \A p \in DOMAIN ship.state.hashes : Intact(p)) => Printed(Ready)

C34_Witness ==
  /\ Decided
  /\ IntegrityChecked
  /\ Printed(Ready)
  /\ \E p \in Paths : Unverified(p)

\* the classes of the integrity result that list p, verified being the
\* class of the paths that neither list holds
ClassesOf(p) ==
  {c \in {"verified", "modified", "missing"} :
     \/ c = "modified" /\ InModified(p)
     \/ c = "missing" /\ InMissing(p)
     \/ c = "verified" /\ ~InModified(p) /\ ~InMissing(p)}

\* C35: after verifyFileIntegrity every path of the snapshot is in exactly
\* one of verified, modified and missing; verified + |modified| + |missing|
\* = total; and verified counts exactly the paths whose file exists, can be
\* read and has the recorded digest.
C35_IntegrityClassesPartition ==
  (IntegrityChecked /\ ship.state.kind = "json") =>
    LET r == ship.integrityResults
        snapshot == DOMAIN ship.state.hashes
    IN  /\ r.verified + Len(r.modified) + Len(r.missing) = r.total
        /\ r.total = Cardinality(snapshot)
        /\ \A p \in snapshot : Cardinality(ClassesOf(p)) = 1
        /\ \A i, j \in 1..Len(r.modified) : r.modified[i].file = r.modified[j].file => i = j
        /\ \A i, j \in 1..Len(r.missing) : r.missing[i] = r.missing[j] => i = j
        /\ r.verified = Cardinality({p \in snapshot : Intact(p)})
        /\ \A p \in snapshot : ClassesOf(p) = {"verified"} <=> Intact(p)

C35_Witness ==
  /\ IntegrityChecked
  /\ ship.state.kind = "json"
  /\ ship.integrityResults.verified = 1
  /\ \E p \in DOMAIN ship.state.hashes : tree[p] = "EACCES" /\ InModified(p)

\* a gate result as read back from the record
Reread(result) ==
  [success |-> Get(result, "success"), skipped |-> Get(result, "skipped")]

\* the record that the ship run loaded is as a verify run wrote it: its
\* summary is the one that verify computes from the gate results in it
VerifyWritten ==
  ship.state.summary =
    JSONstringify(Summary(Reread(ship.state.tests), Reread(ship.state.lint),
                          Reread(ship.state.audit), Reread(ship.state.aiReview)))

\* the ship run has evaluated the gates
GatesChecked == ship.gates # NoGates

\* C36: in a record written by verify, overallPass true implies testsPass,
\* lintPass, auditPass and aiReviewPass true, so that for such a record the
\* four gates of ship pass exactly when overallPass is true; and a record
\* whose summary lacks one of the flags that ship reads is denied.
C36_OverallPassSumsUpTheGates ==
  ship.state.kind = "json" =>
    /\ VerifyWritten =>
         /\ Get(ship.state.summary, "overallPass") = "true"
              => \A flag \in SummaryFlags : Get(ship.state.summary, flag) = "true"
         /\ GatesChecked =>
              (gatesPass(ship.gates) <=> Get(ship.state.summary, "overallPass") = "true")
    /\ (\E flag \in GateFlags : flag \notin DOMAIN ship.state.summary) =>
         /\ ~Printed(Ready)
         /\ GatesChecked => ~gatesPass(ship.gates)
         /\ ship.pc = "done" => ship.exit = "1"

C36_Witness ==
  /\ ship.pc = "done"
  /\ ship.state.kind = "json"
  /\ ship.exit = "1"
  /\ ~VerifyWritten
  /\ Get(ship.state.summary, "overallPass") = "true"
  /\ "testsPass" \notin DOMAIN ship.state.summary
  /\ GatesChecked

\* the text from the first opening brace of r to where its braces balance,
\* parsed; nothing when r has no brace or the braces never balance
FirstCandidate(r) ==
  LET start == indexOfBrace(r)
      end == IF start = 0 THEN 0 ELSE balancedEnd(r, start, 0)
  IN  IF end = 0 THEN NoValue ELSE JSONparse(SubSeq(r, start, end))

\* a structured document begins at an opening brace of r after the first
LaterPayload(r) ==
  \E i \in (indexOfBrace(r) + 1)..Len(r) :
    /\ r[i] = "{"
    /\ \E j \in i..Len(r) : ~JSONparse(SubSeq(r, i, j)).threw

\* C37: when strategies 1 and 2 fail, the verdict is decided by one
\* candidate, the balanced text from the first opening brace: its document
\* when it parses, and the raw fallback when it does not or when the braces
\* never balance, whatever opening braces follow.
C37_BracesTryOneCandidate ==
  review.pc = "parsed" =>
    LET r == review.response
    IN  (strategy1(r).threw /\ strategy2(r).threw) =>
          IF FirstCandidate(r).threw
            THEN review.parsed = Verdict(<<>>, r, "true")
            ELSE review.parsed = Verdict(FirstCandidate(r).value, <<>>, "undefined")

C37_Witness ==
  /\ review.pc = "parsed"
  /\ review.parsed = Verdict(<<>>, review.response, "true")
  /\ indexOfBrace(review.response) # 0
  /\ LaterPayload(review.response)

====
